---- MODULE Spec2Model ----
(***************************************************************************)
(* A model of keboola/component-linkedin-pages: the LinkedIn pagination    *)
(* client (linkedin/client.py), the time model (linkedin/models.py), the   *)
(* table builder (data_processing.py, csv_table.py) and the extractor's    *)
(* run() (component.py).                                                   *)
(*                                                                         *)
(* The module holds several specifications over disjoint groups of         *)
(* variables; a specification leaves the other groups at their idle value. *)
(*   SpecPag    LinkedInClient.get and LinkedInClient._handle_pagination   *)
(*   SpecChunk  TimeIntervals.to_downloadable_chunks                       *)
(*   SpecTable  create_table, Table.is_empty, Table.save_as_csv_with_manifest *)
(*   SpecRun    LinkedInPagesExtractor.run, one run of the component       *)
(*   SpecData   the statistics processors, flatten_dict and URN            *)
(*   SpecSeq    the state file over successive time-bound runs             *)
(***************************************************************************)
EXTENDS Integers, Sequences, FiniteSets, TLC

VARIABLES
    \* ---- pagination client (SpecPag) ----
    p_pc,          \* position: "idle", "loop", "yield", "done", "raised", "single_done"
    p_mode,        \* "none", "auto" (start is None) or "single" (start is an int)
    p_count,       \* the count argument (page size)
    p_srv,         \* the simulated endpoint
    p_params,      \* the params dict: its "start" and "count" entries
    p_elements,    \* elements of the page being yielded
    p_i,           \* how many elements of p_elements were yielded
    p_downloaded,  \* total_elements_downloaded
    p_handled,     \* all_pages_handled
    p_yielded,     \* every element the generator yielded, in order
    p_requests,    \* every request handed to get(): endpoint_path, start, count
    p_pages,       \* every page received, in order
    p_result,      \* what the call returned or raised (single mode), what get() raised (auto)
    p_gets,        \* number of calls of LinkedInClient.get
    p_http,        \* number of HTTP requests made by get_raw on behalf of get
    p_last,        \* the last call of get: status, body, outcome
    \* ---- TimeIntervals.to_downloadable_chunks (SpecChunk) ----
    c_pc,          \* "init", "gen" (a generator was returned), "done", "raised"
    c_self,        \* the TimeIntervals: time_granularity_type, time_range (start, end in days)
    c_src,         \* chunk dicts the library generator has yet to produce
    c_out,         \* the TimeIntervals obtained so far, in order
    \* ---- create_table and Table (SpecTable) ----
    t_pc,          \* "init", "built", "raised"; "table" for a Table constructed directly
    t_args,        \* create_table's primary_key, flatten_records, normalize_header
    t_input,       \* the record stream handed to create_table (never changes)
    t_records,     \* what Table.records is: "lazy" (an iterator) or "list" (a collection)
    t_src,         \* records the underlying iterator has yet to produce
    t_pulled,      \* number of records pulled from the underlying iterator
    t_columns,     \* Table.columns: None or the list of column names
    t_mapping,     \* column_name_mapping of the lazy renaming
    t_buf,         \* rows pulled from the stream and chained back in front of it
    t_consumed,    \* number of rows of Table.records handed to the CSV writer
    t_saved,       \* Table._saved
    t_header,      \* Table._header_included
    t_is_empty,    \* Table._is_empty: None, TRUE or FALSE
    t_file,        \* the CSV written: None or its header flag and rows
    t_manifest,    \* the manifest written: None or its columns, primary key, incremental
    t_exc,         \* the exception create_table raised, or None
    \* ---- LinkedInPagesExtractor.run (SpecRun) ----
    r_pc,          \* position in run(): "start", "orgs", "intervals", "dispatch", "collect",
                   \* "build", "posts_save", "posts_reread", "save", "write_state", "done", "raised"
    r_cfg,         \* configuration parameters: target, organizations, sync_options, load type, debug
    r_now,         \* datetime.now(), truncated to midnight
    r_state,       \* the persisted state file
    r_state_io,    \* number of reads and of writes of the state file
    r_tmp_state,   \* self.tmp_state
    r_urns,        \* organization_urns
    r_ti,          \* self.time_intervals
    r_sel,         \* self.linked_in_client_method and self.statistics_processor_class
    r_requests,    \* every request sent to the API, with the size of the answer
    r_tables,      \* the Table objects built so far, each with its lazy record source
    r_k,           \* index of the table being built or saved
    r_posts_urns,  \* posts_urns of get_all_posts_based_tables
    r_files,       \* CSV files written, in order
    r_manifests,   \* manifests written, in order
    r_warnings,    \* warnings logged
    r_exc,         \* the exception that left run(), where it was raised and what it was
    \* ---- the record processing functions and URN (SpecData) ----
    d_pc,          \* "call" before the function is applied, "done" after
    d_call,        \* the function called and its arguments
    d_out,         \* what the call returned or raised
    \* ---- the state file over successive time-bound runs (SpecSeq) ----
    s_pc,          \* "idle" between runs, then "intervals", "extract", "write_state", and how
                   \* the run ended: "finished", "returned" (zero-length range) or "aborted"
    s_sync,        \* the sync_options of the run
    s_now,         \* datetime.now(), truncated to midnight
    s_state,       \* the persisted state file
    s_tmp_state,   \* self.tmp_state
    s_ti,          \* self.time_intervals
    s_hist         \* the runs so far: their number, whether all used 'last run', and the
                   \* range of the last run that ended without an exception

pagVars == <<p_pc, p_mode, p_count, p_srv, p_params, p_elements, p_i, p_downloaded,
             p_handled, p_yielded, p_requests, p_pages, p_result, p_gets, p_http, p_last>>

chunkVars == <<c_pc, c_self, c_src, c_out>>

tabVars == <<t_pc, t_args, t_input, t_records, t_src, t_pulled, t_columns, t_mapping, t_buf,
             t_consumed, t_saved, t_header, t_is_empty, t_file, t_manifest, t_exc>>

runVars == <<r_pc, r_cfg, r_now, r_state, r_state_io, r_tmp_state, r_urns, r_ti, r_sel,
             r_requests, r_tables, r_k, r_posts_urns, r_files, r_manifests, r_warnings, r_exc>>

dataVars == <<d_pc, d_call, d_out>>

seqVars == <<s_pc, s_sync, s_now, s_state, s_tmp_state, s_ti, s_hist>>

vars == <<pagVars, chunkVars, tabVars, runVars, dataVars, seqVars>>

\* the groups a specification leaves alone
notPag == <<chunkVars, tabVars, runVars, dataVars, seqVars>>
notChunk == <<pagVars, tabVars, runVars, dataVars, seqVars>>
notTable == <<pagVars, chunkVars, runVars, dataVars, seqVars>>
notRun == <<pagVars, chunkVars, tabVars, dataVars, seqVars>>
notData == <<pagVars, chunkVars, tabVars, runVars, seqVars>>
notSeq == <<pagVars, chunkVars, tabVars, runVars, dataVars>>

\* ------------------------------------------------------------------ bounds

MaxCount == 3      \* page sizes 1..MaxCount
MaxTotal == 5      \* size of the collection behind a total-reporting endpoint
MaxScript == 3     \* number of scripted pages of an endpoint that reports no total
MaxStart == 2      \* explicit start offsets 0..MaxStart
MaxStartDay == 1   \* a chunked range starts on day 0..MaxStartDay
MaxRangeDays == 845 \* a chunked range is 0..MaxRangeDays days long
MaxRecs == 2       \* a record stream handed to create_table holds 0..MaxRecs records
MaxOrgs == 2       \* a run extracts for 0..MaxOrgs organizations
MaxDay == 1        \* configured dates, the clock and the watermark lie on day 0..MaxDay or far later
MaxRequests == 6   \* a run is followed up to MaxRequests API requests
MaxPages == 2      \* a paged call of a run is answered in at most MaxPages pages
MaxUrnLen == 5     \* a string handed to URN.from_str has 0..MaxUrnLen characters
MaxPageSize == 2   \* the page size of a run, standing for DEFAULT_PAGE_SIZE and POST_PAGE_SIZE
MaxSeqDay == 2     \* successive runs have their clock and their dates on day 0..MaxSeqDay
MaxRuns == 3       \* up to MaxRuns successive runs are followed

\* ------------------------------------------------------------------ helpers

None == "None"

Min(a, b) == IF a < b THEN a ELSE b
Max(a, b) == IF a > b THEN a ELSE b

RECURSIVE Concat(_)
Concat(ss) == IF ss = <<>> THEN <<>> ELSE Head(ss) \o Concat(Tail(ss))

SeqsUpTo(S, n) == UNION {[1..k -> S] : k \in 0..n}

CeilDiv(a, b) == (a + b - 1) \div b

\* ------------------------------------------------------- LinkedInClient.get

\* the HTTP statuses the simulated API answers with
Statuses == {200, 400, 401, 402, 403, 404, 429, 500}

\* the 'message' entry of an error body; None when the body has none
Messages == {"msg", None}

\* requests.Response.raise_for_status as called in the wrapper: 4xx and 5xx raise HTTPError
RaisesHTTPError(status) == status >= 400 /\ status < 600

IsClientErrorStatusWide(status) == status \in {400, 401, 402, 403, 404}

\* response.status_code in (400, 401, 402, 403)
IsClientErrorStatus(status) == status \in {400, 401, 402, 403}

\* the wrapper calls api_call exactly once
HttpRequestsPerGetRetrying(status) == IF status >= 500 THEN 2 ELSE 1

HttpRequestsPerGet(status) == 1

\* response_error_handling.wrapper: the outcome of get() for a response of the given
\* status whose decoded body is body (an error body holds "message")
response_error_handling(status, body) ==
    IF RaisesHTTPError(status)
    THEN IF IsClientErrorStatus(status)
         THEN [kind |-> "LinkedInClientException", value |-> body.message]
         ELSE [kind |-> "HTTPError", value |-> status]
    ELSE [kind |-> "return", value |-> body]

\* ------------------------------------------------------ simulated endpoint

EndpointPath == "endpoint_path"

\* a collection endpoint: "total" holds n items and reports paging.total = n, serving
\* min(count, n - start) of them; "script" reports no total and serves pages of the
\* scripted sizes, then empty pages
Servers(count) ==
    {[kind |-> "total", n |-> n, script |-> <<>>] : n \in 0..MaxTotal}
    \cup {[kind |-> "script", n |-> 0, script |-> s] : s \in SeqsUpTo(0..count, MaxScript)}

PageSize(srv, start, count, nth) ==
    IF srv.kind = "total"
    THEN Min(count, Max(0, srv.n - start))
    ELSE IF nth <= Len(srv.script) THEN srv.script[nth] ELSE 0

\* the decoded body of the nth response: elements are named by their offset
PageBody(srv, start, count, nth) ==
    [elements |-> [j \in 1..PageSize(srv, start, count, nth) |-> start + j - 1],
     paging   |-> [total |-> IF srv.kind = "total" THEN srv.n ELSE None]]

ErrorBody(msg) == [message |-> msg]

ResponseBody(status, msg, srv, start, count, nth) ==
    IF RaisesHTTPError(status) THEN ErrorBody(msg) ELSE PageBody(srv, start, count, nth)

\* --------------------------------------- LinkedInClient._handle_pagination

\* the endpoint_path get() receives in single-page mode: the call is
\* self.get(params=params, **kwargs), endpoint_path is not forwarded and get()
\* falls back to its default None
SinglePagePath(endpoint_path) == None

\* the endpoint_path get() receives from the generator: self.get(endpoint_path=endpoint_path, ...)
GeneratorPath(endpoint_path) == endpoint_path

AllPagesHandledOnEmptyOnly(actual_page_size, count) == actual_page_size = 0

\* all_pages_handled = actual_page_size == 0 or actual_page_size < count
AllPagesHandled(actual_page_size, count) ==
    actual_page_size = 0 \/ actual_page_size < count

NextStartOffByOne(start, count) == start + count + 1

\* params["start"] += count
NextStart(start, count) == start + count

ChunkIdle ==
    /\ c_pc = "idle"
    /\ c_self = None
    /\ c_src = <<>>
    /\ c_out = <<>>

\* Table.columns: None, or a list of names
NoColumns == [is_none |-> TRUE, names |-> <<>>]
Columns(names) == [is_none |-> FALSE, names |-> names]

\* no CSV file, no manifest
NoFile == [written |-> FALSE, header |-> FALSE, rows |-> <<>>]
NoManifest == [written |-> FALSE, columns |-> <<>>, primary_key |-> <<>>,
               incremental |-> FALSE]

\* Table._is_empty is None, True or False
PyBool(b) == IF b THEN "True" ELSE "False"

TabIdle ==
    /\ t_pc = "idle"
    /\ t_args = None
    /\ t_input = <<>>
    /\ t_records = "lazy"
    /\ t_src = <<>>
    /\ t_pulled = 0
    /\ t_columns = NoColumns
    /\ t_mapping = <<>>
    /\ t_buf = <<>>
    /\ t_consumed = 0
    /\ t_saved = FALSE
    /\ t_header = FALSE
    /\ t_is_empty = None
    /\ t_file = NoFile
    /\ t_manifest = NoManifest
    /\ t_exc = None

SeqIdle ==
    /\ s_pc = "off"
    /\ s_sync = None
    /\ s_now = 0
    /\ s_state = None
    /\ s_tmp_state = None
    /\ s_ti = None
    /\ s_hist = None

DataIdle ==
    /\ d_pc = "idle"
    /\ d_call = None
    /\ d_out = None

RunIdle ==
    /\ r_pc = "idle"
    /\ r_cfg = None
    /\ r_now = 0
    /\ r_state = None
    /\ r_state_io = None
    /\ r_tmp_state = None
    /\ r_urns = <<>>
    /\ r_ti = None
    /\ r_sel = None
    /\ r_requests = <<>>
    /\ r_tables = <<>>
    /\ r_k = 0
    /\ r_posts_urns = <<>>
    /\ r_files = <<>>
    /\ r_manifests = <<>>
    /\ r_warnings = <<>>
    /\ r_exc = None

PagIdle ==
    /\ p_pc = "idle"
    /\ p_mode = "none"
    /\ p_params = [start |-> None, count |-> None]
    /\ p_elements = <<>>
    /\ p_i = 0
    /\ p_downloaded = 0
    /\ p_handled = FALSE
    /\ p_yielded = <<>>
    /\ p_requests = <<>>
    /\ p_pages = <<>>
    /\ p_result = [kind |-> "none", value |-> None]
    /\ p_gets = 0
    /\ p_http = 0
    /\ p_last = [status |-> 0, body |-> None, outcome |-> [kind |-> "none", value |-> None]]

InitPag ==
    /\ SeqIdle
    /\ PagIdle
    /\ ChunkIdle
    /\ TabIdle
    /\ RunIdle
    /\ DataIdle
    /\ p_count \in 1..MaxCount
    /\ p_srv \in Servers(p_count)

\* one call of get(endpoint_path=path, params=p_params') answered with status/msg
GetCall(path, params, status, msg) ==
    LET body == ResponseBody(status, msg, p_srv, params.start, params.count,
                             Len(p_pages) + 1)
        out  == response_error_handling(status, body)
    IN /\ p_requests' = Append(p_requests,
                               [path |-> path, start |-> params.start, count |-> params.count])
       /\ p_gets' = p_gets + 1
       /\ p_http' = p_http + HttpRequestsPerGet(status)
       /\ p_last' = [status |-> status, body |-> body, outcome |-> out]

\* _handle_pagination(endpoint_path, count, start=None): params["count"] = count,
\* params["start"] = 0, and the generator object is returned without running it
PagCallAuto ==
    /\ UNCHANGED notPag
    /\ p_pc = "idle"
    /\ p_mode' = "auto"
    /\ p_params' = [start |-> 0, count |-> p_count]
    /\ p_pc' = "loop"
    /\ UNCHANGED <<p_count, p_srv, p_elements, p_i, p_downloaded, p_handled, p_yielded,
                   p_requests, p_pages, p_result, p_gets, p_http, p_last>>

\* _handle_pagination(endpoint_path, count, start=s): one get() WITHOUT endpoint_path,
\* whose outcome is the outcome of the call
PagCallSingle ==
    /\ UNCHANGED notPag
    /\ p_pc = "idle"
    /\ \E s \in 0..MaxStart, status \in Statuses, msg \in Messages :
          /\ p_params' = [start |-> s, count |-> p_count]
          /\ GetCall(SinglePagePath(EndpointPath), p_params', status, msg)
    /\ p_mode' = "single"
    /\ p_result' = p_last'.outcome
    /\ p_pages' = IF p_last'.outcome.kind = "return"
                  THEN Append(p_pages, p_last'.body.elements) ELSE p_pages
    /\ p_pc' = "single_done"
    /\ UNCHANGED <<p_count, p_srv, p_elements, p_i, p_downloaded, p_handled, p_yielded>>

\* generator: while not all_pages_handled: next_page = self.get(endpoint_path, params)
GenFetch ==
    /\ UNCHANGED notPag
    /\ p_pc = "loop"
    /\ ~p_handled
    /\ \E status \in Statuses, msg \in Messages :
          GetCall(GeneratorPath(EndpointPath), p_params, status, msg)
    /\ IF p_last'.outcome.kind = "return"
       THEN /\ p_elements' = p_last'.body.elements
            /\ p_pages' = Append(p_pages, p_last'.body.elements)
            /\ p_i' = 0
            /\ p_pc' = "yield"
            /\ UNCHANGED p_result
       ELSE /\ p_result' = p_last'.outcome
            /\ p_pc' = "raised"
            /\ UNCHANGED <<p_elements, p_pages, p_i>>
    /\ UNCHANGED <<p_mode, p_count, p_srv, p_params, p_downloaded, p_handled, p_yielded>>

\* generator: yield from elements, one element per pull
GenYield ==
    /\ UNCHANGED notPag
    /\ p_pc = "yield"
    /\ p_i < Len(p_elements)
    /\ p_yielded' = Append(p_yielded, p_elements[p_i + 1])
    /\ p_i' = p_i + 1
    /\ UNCHANGED <<p_pc, p_mode, p_count, p_srv, p_params, p_elements, p_downloaded,
                   p_handled, p_requests, p_pages, p_result, p_gets, p_http, p_last>>

\* generator: the bookkeeping after yield from, up to the loop test
GenPageEnd ==
    /\ UNCHANGED notPag
    /\ p_pc = "yield"
    /\ p_i = Len(p_elements)
    /\ p_downloaded' = p_downloaded + Len(p_elements)
    /\ p_handled' = AllPagesHandled(Len(p_elements), p_count)
    /\ p_params' = [p_params EXCEPT !.start = NextStart(p_params.start, p_count)]
    /\ p_pc' = IF p_handled' THEN "done" ELSE "loop"
    /\ UNCHANGED <<p_mode, p_count, p_srv, p_elements, p_i, p_yielded, p_requests,
                   p_pages, p_result, p_gets, p_http, p_last>>

NextPag ==
    \/ PagCallAuto
    \/ PagCallSingle
    \/ GenFetch
    \/ GenYield
    \/ GenPageEnd

SpecPag == InitPag /\ [][NextPag]_vars

\* ------------------------------------------------ claims on the pagination

\* index of the first scripted page shorter than count; the first page after the
\* script (an empty one) when every scripted page is full
FirstShortPage(script, count) ==
    IF \E k \in 1..Len(script) : script[k] < count
    THEN CHOOSE k \in 1..Len(script) :
            /\ script[k] < count
            /\ \A j \in 1..(k - 1) : script[j] = count
    ELSE Len(script) + 1

\* C1 (as claimed): against an endpoint that reports paging.total = T >= 1 and serves
\* min(count, T - start) elements, the generator never issues more than ceil(T/count)
\* requests, and once finished it has yielded T elements in exactly ceil(T/count) requests.
C1_StopsWhenTotalReached ==
    (p_mode = "auto" /\ p_srv.kind = "total" /\ p_srv.n >= 1) =>
        /\ Len(p_requests) <= CeilDiv(p_srv.n, p_count)
        /\ (p_pc = "done" =>
               /\ Len(p_yielded) = p_srv.n
               /\ Len(p_requests) = CeilDiv(p_srv.n, p_count))

\* C2: with no paging.total reported, no request follows the first page shorter than
\* count (an empty page included), every earlier page was full, and the number of
\* requests never exceeds the position of the first short page the endpoint serves,
\* so the pagination ends as soon as a short page arrives.
C2_NoRequestAfterShortPage ==
    (p_mode = "auto" /\ p_srv.kind = "script") =>
        /\ \A k \in 1..Len(p_pages) : Len(p_pages[k]) < p_count => Len(p_requests) <= k
        /\ Len(p_requests) <= FirstShortPage(p_srv.script, p_count)
        /\ (p_pc = "loop" => \A k \in 1..Len(p_pages) : Len(p_pages[k]) = p_count)
        /\ (p_pc = "done" =>
               /\ Len(p_pages) = FirstShortPage(p_srv.script, p_count)
               /\ Len(p_pages[Len(p_pages)]) < p_count)

\* C2 witness: pages of sizes [3,3,1] with count = 3 ended the pagination in 3 requests
C2_Witness ==
    /\ p_mode = "auto" /\ p_srv.kind = "script" /\ p_count = 3
    /\ p_srv.script = <<3, 3, 1>>
    /\ p_pc = "done"
    /\ Len(p_requests) = 3
    /\ Len(p_yielded) = 7

\* C3: the k-th request (k = 0, 1, ...) of an auto pagination goes to the endpoint with
\* start = k * count and the unchanged count, and the elements yielded are the
\* concatenation of the pages received, in order, up to the element last yielded.
C3_OffsetsAndConcatenation ==
    p_mode = "auto" =>
        /\ \A k \in 1..Len(p_requests) :
              p_requests[k] = [path |-> EndpointPath, start |-> (k - 1) * p_count,
                               count |-> p_count]
        /\ p_yielded =
              IF p_pc = "yield"
              THEN Concat(SubSeq(p_pages, 1, Len(p_pages) - 1))
                   \o SubSeq(p_pages[Len(p_pages)], 1, p_i)
              ELSE Concat(p_pages)

\* C3 witness: a finished pagination of at least three requests that yielded elements
\* of several pages
C3_Witness ==
    /\ p_mode = "auto" /\ p_pc = "done"
    /\ Len(p_requests) >= 3
    /\ Len(p_yielded) >= 4
    /\ p_requests[3].start = 2 * p_count

\* C4 (as claimed): a call with an explicit start issues exactly one request, to the
\* given endpoint path, with start = the given offset and count = the page size, and
\* returns the decoded page as is.
C4_SinglePageRequest ==
    p_pc = "single_done" =>
        /\ Len(p_requests) = 1
        /\ p_requests[1] = [path |-> EndpointPath, start |-> p_params.start,
                            count |-> p_count]
        /\ (p_last.outcome.kind = "return" => p_result.value = p_last.body)

\* C6: get() raises LinkedInClientException with the body's 'message' on 400..403,
\* re-raises the HTTP error on every other error status, returns the decoded body on
\* success, and makes one request per call.
C6_GetOutcome ==
    p_gets > 0 =>
        /\ (p_last.status \in {400, 401, 402, 403} =>
               p_last.outcome = [kind |-> "LinkedInClientException",
                                 value |-> p_last.body.message])
        /\ (p_last.status \in {404, 429, 500} =>
               p_last.outcome = [kind |-> "HTTPError", value |-> p_last.status])
        /\ (p_last.status = 200 =>
               p_last.outcome = [kind |-> "return", value |-> p_last.body])
        /\ p_http = p_gets

\* C6 witness: a later page of a pagination answered 403 with a message
C6_Witness ==
    /\ p_gets >= 2
    /\ p_http = p_gets
    /\ p_last.status = 403
    /\ p_last.outcome = [kind |-> "LinkedInClientException", value |-> "msg"]
    /\ p_pc = "raised"

\* ------------------------------------------------------------ time model
\* Instants are whole days counted from LAST_RUN_MISSING_DEFAULT (2003-05-05, day 0):
\* every instant the component builds is truncated to midnight.

\* MAXIMUM_TIME_RANGE_SIZE = timedelta(days=30 * 14), in days
MAXIMUM_TIME_RANGE_SIZE == 420

TimeGranularityType == {"DAY", "MONTH"}

\* TimeRange.__post_init__: start > end raises ValueError
TimeRangeValid(start, end) == start <= end

\* TimeRange.timedelta
TimeDelta(time_range) == time_range.end - time_range.start

\* a date string in ISO format, the only format datetime.fromisoformat parses
IsoString(day) == [format |-> "iso", day |-> day]

\* keboola.utils.date.split_dates_to_chunks(start_date, end_date, intv, generator=True):
\* successive windows of intv days from start_date, the last one cut at end_date, each
\* a dict of two date strings
split_dates_to_chunks(start_date, end_date, intv) ==
    [k \in 1..((end_date - start_date + intv - 1) \div intv) |->
        [start_date |-> IsoString(start_date + (k - 1) * intv),
         end_date   |-> IsoString(Min(start_date + k * intv, end_date))]]

\* datetime.fromisoformat raises ValueError on a string that is not in ISO format
IsIsoFormat(str) == str.format = "iso"

\* datetime.fromisoformat on a string it accepts
fromisoformat(str) == str.day

\* TimeRange.from_chunk_dict
from_chunk_dict(d) ==
    [start |-> fromisoformat(d.start_date), end |-> fromisoformat(d.end_date)]

ChunkGranularityAlwaysDay(ti) == "DAY"

\* time_granularity_type=self.time_granularity_type
ChunkGranularity(ti) == ti.time_granularity_type

\* self.time_range.timedelta <= MAXIMUM_TIME_RANGE_SIZE
WithinMaximumSpan(ti) == TimeDelta(ti.time_range) <= MAXIMUM_TIME_RANGE_SIZE

InitChunk ==
    /\ SeqIdle
    /\ PagIdle
    /\ p_count = 1
    /\ p_srv = [kind |-> "total", n |-> 0, script |-> <<>>]
    /\ TabIdle
    /\ RunIdle
    /\ DataIdle
    /\ c_pc = "init"
    /\ \E g \in TimeGranularityType, s \in 0..MaxStartDay, len \in 0..MaxRangeDays :
          c_self = [time_granularity_type |-> g,
                    time_range |-> [start |-> s, end |-> s + len]]
    /\ c_src = <<>>
    /\ c_out = <<>>

\* to_downloadable_chunks: [self] when within the maximum span, else a generator over
\* the library's chunk dicts (nothing is converted until it is pulled)
ChunkCall ==
    /\ UNCHANGED notChunk
    /\ c_pc = "init"
    /\ IF WithinMaximumSpan(c_self)
       THEN /\ c_out' = <<c_self>>
            /\ c_src' = <<>>
            /\ c_pc' = "done"
       ELSE /\ c_src' = split_dates_to_chunks(c_self.time_range.start,
                                              c_self.time_range.end,
                                              MAXIMUM_TIME_RANGE_SIZE)
            /\ c_out' = <<>>
            /\ c_pc' = "gen"
    /\ UNCHANGED c_self

\* one pull of the generator expression: the next chunk dict becomes a TimeIntervals
ChunkPull ==
    /\ UNCHANGED notChunk
    /\ c_pc = "gen"
    /\ c_src # <<>>
    /\ LET tr == from_chunk_dict(Head(c_src))
       IN IF ~IsIsoFormat(Head(c_src).start_date) \/ ~IsIsoFormat(Head(c_src).end_date)
             \/ ~TimeRangeValid(tr.start, tr.end)
          THEN /\ c_pc' = "raised"
               /\ UNCHANGED c_out
          ELSE /\ c_out' = Append(c_out, [time_granularity_type |-> ChunkGranularity(c_self),
                                          time_range |-> tr])
               /\ c_pc' = "gen"
    /\ c_src' = Tail(c_src)
    /\ UNCHANGED c_self

\* the generator is exhausted
ChunkStop ==
    /\ UNCHANGED notChunk
    /\ c_pc = "gen"
    /\ c_src = <<>>
    /\ c_pc' = "done"
    /\ UNCHANGED <<c_self, c_src, c_out>>

NextChunk ==
    \/ ChunkCall
    \/ ChunkPull
    \/ ChunkStop

SpecChunk == InitChunk /\ [][NextChunk]_vars

\* --------------------------------------------------- claims on the chunks

ChunkLen(ti) == ti.time_range.end - ti.time_range.start

\* the chunks obtained are in chronological order, contiguous, non-overlapping, of
\* the granularity of the original, each at most the maximum span long, and start at
\* the original start
ChunksWellFormed ==
    /\ \A k \in 1..Len(c_out) :
          /\ c_out[k].time_granularity_type = c_self.time_granularity_type
          /\ c_out[k].time_range.start <= c_out[k].time_range.end
          /\ ChunkLen(c_out[k]) <= MAXIMUM_TIME_RANGE_SIZE
    /\ \A k \in 1..(Len(c_out) - 1) :
          c_out[k + 1].time_range.start = c_out[k].time_range.end
    /\ (c_out # <<>> => c_out[1].time_range.start = c_self.time_range.start)

Val(n) == [t |-> "val", v |-> n]
List(items) == [t |-> "list", items |-> items]
Dict(items) == [t |-> "dict", items |-> items]
Item(k, v) == [k |-> k, v |-> v]

Keys(d) == [j \in 1..Len(d.items) |-> d.items[j].k]

HasKey(d, k) == \E j \in 1..Len(d.items) : d.items[j].k = k

InSeq(x, seq) == \E j \in 1..Len(seq) : seq[j] = x

\* dict(items): a later pair of the same key replaces the value and keeps the place
RECURSIVE DictFromItems(_, _)
DictFromItems(items, acc) ==
    IF items = <<>> THEN Dict(acc)
    ELSE LET it == Head(items)
         IN IF \E j \in 1..Len(acc) : acc[j].k = it.k
            THEN DictFromItems(Tail(items),
                               [j \in 1..Len(acc) |->
                                   IF acc[j].k = it.k THEN it ELSE acc[j]])
            ELSE DictFromItems(Tail(items), Append(acc, it))

\* a flattening of the first level only
flatten_one_level(d, parent_key, sep) ==
    Dict([j \in 1..Len(d.items) |->
             Item(IF parent_key # "" THEN parent_key \o sep \o d.items[j].k ELSE d.items[j].k,
                  d.items[j].v)])

\* flatten_dict(d, parent_key, sep): nested mappings are inlined under the joined key,
\* every other value is kept
RECURSIVE flatten_dict(_, _, _)
RECURSIVE FlattenItems(_, _, _)
FlattenItems(items, parent_key, sep) ==
    IF items = <<>> THEN <<>>
    ELSE LET it == Head(items)
             new_key == IF parent_key # "" THEN parent_key \o sep \o it.k ELSE it.k
         IN (IF it.v.t = "dict"
             THEN flatten_dict(it.v, new_key, sep).items
             ELSE <<Item(new_key, it.v)>>)
            \o FlattenItems(Tail(items), parent_key, sep)

flatten_dict(d, parent_key, sep) == DictFromItems(FlattenItems(d.items, parent_key, sep), <<>>)

\* HEADER_NORMALIZER.normalize_header on one name: characters the destination does
\* not permit are dropped from the front of the name
NormalizeName(name) == IF name = "$URN" THEN "URN" ELSE name

normalize_header(columns) == [j \in 1..Len(columns) |-> NormalizeName(columns[j])]

\* column_name_mapping: the (denormalized, normalized) pairs that differ
RECURSIVE ColumnNameMapping(_, _)
ColumnNameMapping(denormalized_columns, columns) ==
    IF denormalized_columns = <<>> THEN <<>>
    ELSE (IF Head(denormalized_columns) # Head(columns)
          THEN <<Item(Head(denormalized_columns), Head(columns))>> ELSE <<>>)
         \o ColumnNameMapping(Tail(denormalized_columns), Tail(columns))

MappingGet(key_name_mapping, key) ==
    IF \E j \in 1..Len(key_name_mapping) : key_name_mapping[j].k = key
    THEN (CHOOSE it \in {key_name_mapping[j] : j \in 1..Len(key_name_mapping)} :
             it.k = key).v
    ELSE key

\* rename_dict_keys(d, key_name_mapping)
rename_dict_keys(d, key_name_mapping) ==
    DictFromItems([j \in 1..Len(d.items) |->
                      Item(MappingGet(key_name_mapping, d.items[j].k), d.items[j].v)],
                  <<>>)

\* ------------------------------------------------------------ create_table

\* the raw records of the simulated streams
RawRecords ==
    { Dict(<<Item("id", Val(1))>>),
      Dict(<<Item("id", Val(2)), Item("a", Dict(<<Item("b", Val(1))>>))>>),
      Dict(<<Item("$URN", Val(3)), Item("a", Dict(<<Item("b", Val(2))>>))>>),
      Dict(<<Item("name", Val(4))>>) }

PrimaryKeys == {<<"id">>, <<"$URN">>, <<"URN">>, <<"id", "a_b">>}

\* one record as the lazy pipeline of create_table delivers it
ProcessRecord(d, args, mapping) ==
    LET flat == IF args.flatten_records THEN flatten_dict(d, "", "_") ELSE d
    IN IF args.normalize_header THEN rename_dict_keys(flat, mapping) ELSE flat

\* the columns create_table infers from the first record
InferColumns(d, args) ==
    LET columns == Keys(IF args.flatten_records THEN flatten_dict(d, "", "_") ELSE d)
    IN IF args.normalize_header THEN normalize_header(columns) ELSE columns

MissingPrimaryKeyFirstOnly(primary_key, columns) == ~InSeq(primary_key[1], columns)

\* for pk in primary_key: if pk not in columns: raise ValueError
MissingPrimaryKey(primary_key, columns) ==
    \E j \in 1..Len(primary_key) : ~InSeq(primary_key[j], columns)

\* Table(name, columns, primary_key, records), constructed without create_table: the
\* records are an iterator or a list of rows, the columns None, empty or given
TableColumns == {NoColumns, Columns(<<>>), Columns(<<"id">>)}

InitTable ==
    /\ SeqIdle
    /\ PagIdle
    /\ p_count = 1
    /\ p_srv = [kind |-> "total", n |-> 0, script |-> <<>>]
    /\ ChunkIdle
    /\ RunIdle
    /\ DataIdle
    /\ t_input \in SeqsUpTo(RawRecords, MaxRecs)
    /\ t_src = t_input
    /\ t_pulled = 0
    /\ \/ /\ t_pc = "init"
          /\ t_args \in [primary_key : PrimaryKeys, flatten_records : BOOLEAN,
                         normalize_header : BOOLEAN]
          /\ t_records = "lazy"
          /\ t_columns = NoColumns
       \/ /\ t_pc = "table"
          /\ t_args \in [primary_key : {<<"id">>}, flatten_records : {FALSE},
                         normalize_header : {FALSE}]
          /\ t_records \in {"lazy", "list"}
          /\ t_columns \in TableColumns
    /\ t_mapping = <<>>
    /\ t_buf = <<>>
    /\ t_consumed = 0
    /\ t_saved = FALSE
    /\ t_header = FALSE
    /\ t_is_empty = None
    /\ t_file = NoFile
    /\ t_manifest = NoManifest
    /\ t_exc = None

\* create_table: pull the first record; none gives a Table with columns None; else
\* infer the columns, chain the record back, and check the primary key
CreateTable ==
    /\ UNCHANGED notTable
    /\ t_pc = "init"
    /\ IF t_src = <<>>
       THEN /\ t_pc' = "built"
            /\ UNCHANGED <<t_src, t_pulled, t_columns, t_mapping, t_buf, t_exc>>
       ELSE LET first   == Head(t_src)
                denorm  == Keys(IF t_args.flatten_records
                                THEN flatten_dict(first, "", "_") ELSE first)
                columns == InferColumns(first, t_args)
                mapping == IF t_args.normalize_header
                           THEN ColumnNameMapping(denorm, columns) ELSE <<>>
            IN /\ t_src' = Tail(t_src)
               /\ t_pulled' = t_pulled + 1
               /\ IF MissingPrimaryKey(t_args.primary_key, columns)
                  THEN /\ t_pc' = "raised"
                       /\ t_exc' = "ValueError"
                       /\ UNCHANGED <<t_columns, t_mapping, t_buf>>
                  ELSE /\ t_pc' = "built"
                       /\ t_columns' = Columns(columns)
                       /\ t_mapping' = mapping
                       /\ t_buf' = <<ProcessRecord(first, t_args, mapping)>>
                       /\ UNCHANGED t_exc
    /\ UNCHANGED <<t_args, t_input, t_records, t_consumed, t_saved, t_header, t_is_empty, t_file,
                   t_manifest>>

\* if isinstance(self.records, Collection): return len(self.records) > 0
LenGreaterThanZero(records) == Len(records) > 0

\* Table._is_empty_internal
IsEmptyInternal ==
    IF t_saved THEN FALSE
    ELSE IF t_columns.is_none \/ t_columns.names = <<>> THEN TRUE
    ELSE IF t_records = "list" THEN LenGreaterThanZero(t_src)
    ELSE t_buf = <<>> /\ t_src = <<>>

\* a test that pulls a record and does not chain it back
PullTestRecordAway ==
    IF ~t_saved /\ ~t_columns.is_none /\ t_columns.names # <<>> /\ t_records = "lazy"
       /\ t_buf \o t_src # <<>>
    THEN /\ t_buf' = <<>>
         /\ t_src' = IF t_buf # <<>> THEN t_src ELSE Tail(t_src)
         /\ t_pulled' = IF t_buf # <<>> THEN t_pulled ELSE t_pulled + 1
    ELSE UNCHANGED <<t_buf, t_src, t_pulled>>

\* the effect of _is_empty_internal on the record stream: a test record is pulled
\* and chained back
PullTestRecord ==
    IF ~t_saved /\ ~t_columns.is_none /\ t_columns.names # <<>> /\ t_records = "lazy"
       /\ t_buf = <<>> /\ t_src # <<>>
    THEN /\ t_buf' = <<ProcessRecord(Head(t_src), t_args, t_mapping)>>
         /\ t_src' = Tail(t_src)
         /\ t_pulled' = t_pulled + 1
    ELSE UNCHANGED <<t_buf, t_src, t_pulled>>

\* Table.is_empty: computed on first use, cached afterwards
IsEmpty ==
    /\ UNCHANGED notTable
    /\ t_pc \in {"built", "table"}
    /\ IF t_is_empty = None
       THEN /\ t_is_empty' = PyBool(IsEmptyInternal)
            /\ PullTestRecord
       ELSE UNCHANGED <<t_is_empty, t_buf, t_src, t_pulled>>
    /\ UNCHANGED <<t_pc, t_args, t_input, t_records, t_columns, t_mapping, t_consumed, t_saved,
                   t_header, t_file, t_manifest, t_exc>>

\* every row the record sequence of the table still delivers
RECURSIVE ProcessAll(_, _, _)
ProcessAll(src, args, mapping) ==
    IF src = <<>> THEN <<>>
    ELSE <<ProcessRecord(Head(src), args, mapping)>> \o ProcessAll(Tail(src), args, mapping)

\* ElasticDictWriter.fieldnames after the rows: columns first met in a row are added
RECURSIVE AddNew(_, _)
AddNew(fieldnames, names) ==
    IF names = <<>> THEN fieldnames
    ELSE AddNew(IF InSeq(Head(names), fieldnames) THEN fieldnames
                ELSE Append(fieldnames, Head(names)),
                Tail(names))

RECURSIVE FieldNames(_, _)
FieldNames(fieldnames, rows) ==
    IF rows = <<>> THEN fieldnames
    ELSE FieldNames(AddNew(fieldnames, Keys(Head(rows))), Tail(rows))

\* Table.save_as_csv_with_manifest(component, incremental, include_csv_header, overwrite)
SaveAsCsvWithManifest ==
    /\ UNCHANGED notTable
    /\ t_pc \in {"built", "table"}
    /\ \E incremental \in BOOLEAN, include_csv_header \in BOOLEAN, overwrite \in BOOLEAN :
         IF t_saved /\ ~overwrite
         THEN UNCHANGED <<t_is_empty, t_buf, t_src, t_pulled, t_columns, t_consumed,
                          t_saved, t_header, t_file, t_manifest>>
         ELSE LET empty == IF t_is_empty = None THEN PyBool(IsEmptyInternal)
                           ELSE t_is_empty
              IN /\ t_is_empty' = empty
                 /\ IF empty = "True"
                    THEN /\ (IF t_is_empty = None THEN PullTestRecord
                             ELSE UNCHANGED <<t_buf, t_src, t_pulled>>)
                         /\ UNCHANGED <<t_columns, t_consumed, t_saved, t_header, t_file,
                                        t_manifest>>
                    ELSE LET rows == t_buf \o ProcessAll(t_src, t_args, t_mapping)
                             fieldnames == FieldNames(t_columns.names, rows)
                         IN /\ t_file' = [written |-> TRUE, header |-> include_csv_header,
                                          rows |-> rows]
                            /\ t_header' = (t_header \/ include_csv_header)
                            /\ t_consumed' = t_consumed + Len(rows)
                            /\ t_pulled' = IF t_records = "list" THEN t_pulled
                                           ELSE t_pulled + Len(t_src)
                            /\ t_buf' = <<>>
                            /\ t_src' = IF t_records = "list" THEN t_src ELSE <<>>
                            /\ t_columns' = Columns(fieldnames)
                            /\ t_manifest' = [written |-> TRUE, columns |-> fieldnames,
                                              primary_key |-> t_args.primary_key,
                                              incremental |-> incremental]
                            /\ t_saved' = TRUE
    /\ UNCHANGED <<t_pc, t_args, t_input, t_records, t_mapping, t_exc>>

NextTable ==
    \/ CreateTable
    \/ IsEmpty
    \/ SaveAsCsvWithManifest

SpecTable == InitTable /\ [][NextTable]_vars

\* ---------------------------------------------------- claims on the tables

\* C10: create_table on a non-empty stream whose inferred columns (the first record's
\* keys, flattened and normalized) lack a primary-key field raises ValueError at build
\* time: only the first record was read, no row was handed to the writer, no CSV and no
\* manifest exist; and the check is made once against the inferred columns, so a stream
\* whose first record holds the primary key never raises, whatever its later rows hold.
C10_PrimaryKeyCheckedAtBuild ==
    t_pc \in {"built", "raised"} =>
        IF t_input # <<>>
           /\ \E j \in 1..Len(t_args.primary_key) :
                 ~InSeq(t_args.primary_key[j], InferColumns(t_input[1], t_args))
        THEN /\ t_pc = "raised"
             /\ t_exc = "ValueError"
             /\ t_pulled = 1
             /\ t_consumed = 0
             /\ t_file = NoFile
             /\ t_manifest = NoManifest
        ELSE /\ t_pc = "built"
             /\ t_exc = None

\* C10 witness: a stream of two records whose first lacks one field of a two-field
\* primary key made create_table raise
C10_Witness ==
    /\ t_pc = "raised"
    /\ t_exc = "ValueError"
    /\ Len(t_input) = 2
    /\ t_args.primary_key = <<"id", "a_b">>
    /\ HasKey(t_input[1], "id")
    /\ Len(t_src) = 1

(***************************************************************************)
(* LinkedInPagesExtractor.run: one run of the component                    *)
(***************************************************************************)

\* component.py ExtractionTarget
ExtractionTarget ==
    {"page_statistics_time_bound", "page_statistics_lifetime",
     "follower_statistics_time_bound", "follower_statistics_lifetime",
     "share_statistics_time_bound", "share_statistics_lifetime",
     "posts", "enumerated_types", "organizations"}

PAGE_STATS_EXTRACTION_TARGETS == {"page_statistics_time_bound", "page_statistics_lifetime"}
FOLLOWER_STATS_EXTRACTION_TARGETS == {"follower_statistics_time_bound", "follower_statistics_lifetime"}
SHARE_STATS_EXTRACTION_TARGETS == {"share_statistics_time_bound", "share_statistics_lifetime"}

STATS_EXTRACTION_TARGETS ==
    PAGE_STATS_EXTRACTION_TARGETS \cup FOLLOWER_STATS_EXTRACTION_TARGETS \cup SHARE_STATS_EXTRACTION_TARGETS

TIME_BOUND_STATS_EXTRACTION_TARGETS ==
    {"page_statistics_time_bound", "follower_statistics_time_bound", "share_statistics_time_bound"}

LIFETIME_STATS_EXTRACTION_TARGETS ==
    {"page_statistics_lifetime", "follower_statistics_lifetime", "share_statistics_lifetime"}

\* the page sizes the client asks for, scaled down to MaxPageSize
DEFAULT_PAGE_SIZE == MaxPageSize
POST_PAGE_SIZE == MaxPageSize

\* days are counted from 2003-05-05; FarDay lies more than MAXIMUM_TIME_RANGE_SIZE after
\* every other day
LAST_RUN_MISSING_DEFAULT == 0
FarDay == MaxDay + MAXIMUM_TIME_RANGE_SIZE + 1
Days == (0..MaxDay) \cup {FarDay}

VAL_LAST_RUN == [format |-> "last run", day |-> 0]
Unparsable == [format |-> "unparsable", day |-> 0]
DateString(day) == [format |-> "date", day |-> day]

\* dateparser.parse: a datetime, or None for a string it cannot read
ParsesAsDate(s) == s.format = "date"

\* the configurations a run is started with
NoSyncOptions == [given |-> FALSE, date_from |-> Unparsable, date_to |-> Unparsable]
SyncOptions ==
    {NoSyncOptions} \cup
    {[given |-> TRUE, date_from |-> f, date_to |-> t] :
        f \in {VAL_LAST_RUN, Unparsable} \cup {DateString(d) : d \in Days},
        t \in {Unparsable} \cup {DateString(d) : d \in Days}}

OrganizationIds == {<<>>} \cup {[j \in 1..n |-> j] : n \in 1..MaxOrgs}

Configurations ==
    {[target |-> tg, organizations |-> ids, sync_options |-> so, incremental |-> inc, debug |-> dbg] :
        tg \in ExtractionTarget, ids \in OrganizationIds, so \in SyncOptions,
        inc \in BOOLEAN, dbg \in BOOLEAN}

\* the state file: a dict that is empty or holds last_run_downloaded_data_up_to_datetime
EmptyState == [has |-> FALSE, last_run |-> IsoString(0)]
StateWith(str) == [has |-> TRUE, last_run |-> str]

NoTimeIntervals == [is_none |-> TRUE, time_granularity_type |-> "DAY", time_range |-> [start |-> 0, end |-> 0]]
TimeIntervals(granularity, time_range) ==
    [is_none |-> FALSE, time_granularity_type |-> granularity, time_range |-> time_range]

STATISTICS_REPORT_GRANULARITY == "DAY"

NoException == [kind |-> "none", raised |-> "none", site |-> "none"]

\* an exception of class raised at site leaves run() as class kind
Exception(kind, raised, site) == [kind |-> kind, raised |-> raised, site |-> site]

\* try: ... except LinkedInClientException: raise UserException (component.py 135-138, 169-172)
AsUserException(raised) == IF raised = "LinkedInClientException" THEN "UserException" ELSE raised

\* what LinkedInClient.get raises for an answer the API refuses: status 403 or status 500
ApiErrors == {403, 500}
RaisedByGet(status) ==
    IF IsClientErrorStatus(status) THEN "LinkedInClientException" ELSE "HTTPError"

InitRun ==
    /\ SeqIdle
    /\ DataIdle
    /\ PagIdle
    /\ p_count = 1
    /\ p_srv = [kind |-> "total", n |-> 0, script |-> <<>>]
    /\ ChunkIdle
    /\ TabIdle
    /\ r_pc = "start"
    /\ r_cfg \in Configurations
    /\ r_cfg.target \notin TIME_BOUND_STATS_EXTRACTION_TARGETS => r_cfg.sync_options = NoSyncOptions
    /\ r_now \in Days
    /\ r_cfg.target \notin TIME_BOUND_STATS_EXTRACTION_TARGETS => r_now = 0
    /\ r_state \in {EmptyState} \cup {StateWith(IsoString(d)) : d \in Days}
    /\ r_state_io = [reads |-> 0, writes |-> 0]
    /\ r_tmp_state = EmptyState
    /\ r_urns = <<>>
    /\ r_ti = NoTimeIntervals
    /\ r_sel = [method |-> None, processor |-> None]
    /\ r_requests = <<>>
    /\ r_tables = <<>>
    /\ r_k = 0
    /\ r_posts_urns = <<>>
    /\ r_files = <<>>
    /\ r_manifests = <<>>
    /\ r_warnings = <<>>
    /\ r_exc = NoException

Raise(kind, raised, site) ==
    /\ r_pc' = "raised"
    /\ r_exc' = Exception(kind, raised, site)

\* run(), lines 74-93: read the state file, parse the parameters, take the access token
RunStart ==
    /\ UNCHANGED notRun
    /\ r_pc = "start"
    /\ r_tmp_state' = r_state
    /\ r_state_io' = [r_state_io EXCEPT !.reads = @ + 1]
    /\ \E organization_ids_str_valid \in BOOLEAN, has_access_token \in BOOLEAN :
          IF ~organization_ids_str_valid
          THEN Raise("UserException", "ValueError", "organization_ids")
          ELSE IF ~has_access_token
          THEN Raise("UserException", "UserException", "access_token")
          ELSE /\ r_pc' = "orgs"
               /\ UNCHANGED r_exc
    /\ UNCHANGED <<r_cfg, r_now, r_state, r_urns, r_ti, r_sel, r_requests, r_tables, r_k, r_posts_urns,
                   r_files, r_manifests, r_warnings>>

\* the requests list(get_organization_acls("roleAssignee")) sends for n organizations
AclRequests(n, failing, status) ==
    [j \in 1..Min(failing, n \div DEFAULT_PAGE_SIZE + 1) |->
        [endpoint |-> "organizationAcls", key |-> 0, variant |-> "roleAssignee",
         ti |-> NoTimeIntervals, start |-> (j - 1) * DEFAULT_PAGE_SIZE,
         n |-> IF j = failing THEN 0 - status
               ELSE Min(DEFAULT_PAGE_SIZE, n - (j - 1) * DEFAULT_PAGE_SIZE)]]

\* get_organization_urns
RunGetOrganizationUrns ==
    /\ UNCHANGED notRun
    /\ r_pc = "orgs"
    /\ IF Len(r_cfg.organizations) > 0
       THEN /\ r_urns' = r_cfg.organizations
            /\ r_pc' = "intervals"
            /\ UNCHANGED <<r_requests, r_exc>>
       ELSE \E n \in 0..MaxOrgs, failing \in 1..(MaxOrgs \div DEFAULT_PAGE_SIZE + 2), status \in ApiErrors :
               /\ r_requests' = AclRequests(n, failing, status)
               /\ IF failing <= n \div DEFAULT_PAGE_SIZE + 1
                  THEN /\ Raise(AsUserException(RaisedByGet(status)), RaisedByGet(status), "organization_acls")
                       /\ UNCHANGED r_urns
                  ELSE /\ r_urns' = [j \in 1..n |-> j]
                       /\ r_pc' = "intervals"
                       /\ UNCHANGED r_exc
    /\ UNCHANGED <<r_cfg, r_now, r_state, r_state_io, r_tmp_state, r_ti, r_sel, r_tables, r_k, r_posts_urns,
                   r_files, r_manifests, r_warnings>>

\* TimeRange.from_config_dict: the range, or ValueError
FromConfigDictRaises(d, last_run) ==
    \/ ~ParsesAsDate(d.date_to)
    \/ d.date_from # VAL_LAST_RUN /\ ~ParsesAsDate(d.date_from)
    \/ ~TimeRangeValid(IF d.date_from = VAL_LAST_RUN
                       THEN (IF last_run.has THEN fromisoformat(last_run.last_run) ELSE LAST_RUN_MISSING_DEFAULT)
                       ELSE d.date_from.day,
                       d.date_to.day)

\* a range that starts at LinkedIn's launch whatever the state holds
from_config_dict_since_launch(d, last_run) ==
    [start |-> IF d.date_from = VAL_LAST_RUN THEN LAST_RUN_MISSING_DEFAULT ELSE d.date_from.day,
     end |-> d.date_to.day]

from_config_dict(d, last_run) ==
    [start |-> IF d.date_from = VAL_LAST_RUN
               THEN (IF last_run.has THEN fromisoformat(last_run.last_run) ELSE LAST_RUN_MISSING_DEFAULT)
               ELSE d.date_from.day,
     end |-> d.date_to.day]

\* TimeRange.length_in_days
length_in_days(time_range) == TimeDelta(time_range)

\* a set_time_intervals that writes the watermark through to the state file
StateFileOverwritten(state_file, tmp_state) == tmp_state

\* the state file after set_time_intervals: lines 156-158 assign to self.tmp_state, the
\* dict read from the file, and write no file
StateFileAfterSetTimeIntervals(state_file, tmp_state) == state_file

\* run() lines 97-102 with set_time_intervals
RunSetTimeIntervals ==
    /\ UNCHANGED notRun
    /\ r_pc = "intervals"
    /\ IF r_cfg.target \notin STATS_EXTRACTION_TARGETS
       THEN /\ r_pc' = "dispatch"
            /\ UNCHANGED <<r_ti, r_tmp_state, r_exc, r_warnings>>
       ELSE IF r_cfg.target \in TIME_BOUND_STATS_EXTRACTION_TARGETS /\ ~r_cfg.sync_options.given
       THEN /\ Raise("UserException", "UserException", "sync_options")
            /\ UNCHANGED <<r_ti, r_tmp_state, r_warnings>>
       ELSE IF r_cfg.target \in LIFETIME_STATS_EXTRACTION_TARGETS
       THEN /\ r_ti' = NoTimeIntervals
            /\ r_pc' = "dispatch"
            /\ UNCHANGED <<r_tmp_state, r_exc, r_warnings>>
       ELSE IF FromConfigDictRaises(r_cfg.sync_options, r_tmp_state)
       THEN /\ Raise("UserException", "ValueError", "time_range")
            /\ UNCHANGED <<r_ti, r_tmp_state, r_warnings>>
       ELSE LET time_range == from_config_dict(r_cfg.sync_options, r_tmp_state)
            IN  /\ r_ti' = TimeIntervals(STATISTICS_REPORT_GRANULARITY, time_range)
                /\ r_tmp_state' = StateWith(IsoString(Min(r_now, time_range.end)))
                /\ UNCHANGED r_exc
                /\ IF length_in_days(time_range) = 0
                   THEN /\ r_warnings' = Append(r_warnings, "empty time range")
                        /\ r_pc' = "done"
                   ELSE /\ r_pc' = "dispatch"
                        /\ UNCHANGED r_warnings
    /\ r_state' = StateFileAfterSetTimeIntervals(r_state, r_tmp_state')
    /\ UNCHANGED <<r_cfg, r_now, r_state_io, r_urns, r_sel, r_requests, r_tables, r_k, r_posts_urns,
                   r_files, r_manifests>>

\* one call of a client method: the endpoint, the organization or post it is about, the
\* query variant, the time intervals in its URL, and whether _handle_pagination serves it
Call(endpoint, key, variant, ti, paged) ==
    [endpoint |-> endpoint, key |-> key, variant |-> variant, ti |-> ti, paged |-> paged]

\* a Table together with the lazy source its records come from: the client calls not yet
\* finished (calls, start), the elements of the current page not yet yielded (page_left)
\* and the records pulled from the source and held by the table (buf)
NewTable(name, primary_key, record_columns, calls, count) ==
    [name |-> name, primary_key |-> primary_key, record_columns |-> record_columns,
     columns |-> NoColumns, calls |-> calls, count |-> count, start |-> 0,
     page_left |-> <<>>, buf |-> <<>>, built |-> FALSE,
     saved |-> FALSE, header_included |-> FALSE, is_empty |-> None]

\* the elements of one page
Elements(call, start, n) == [j \in 1..n |-> [call |-> call, offset |-> start + j - 1]]

\* the sizes a page of the current call can have: a bare object is one record, a
\* collection has at most MaxPages pages
Responses(t) ==
    IF ~Head(t.calls).paged THEN {1}
    ELSE {n \in 0..t.count : t.start >= (MaxPages - 1) * t.count => n < t.count}

\* the request the source of t sends next, answered by n elements or refused (n < 0)
Request(t, n) ==
    [endpoint |-> Head(t.calls).endpoint, key |-> Head(t.calls).key,
     variant |-> Head(t.calls).variant, ti |-> Head(t.calls).ti, start |-> t.start, n |-> n]

\* the source of t after a page of n elements: the generator of _handle_pagination ends
\* after a short page and the chain moves on to the next call
AfterPage(t, n) ==
    LET handled == ~Head(t.calls).paged \/ AllPagesHandled(n, t.count)
    IN  [t EXCEPT !.page_left = Elements(Head(t.calls), t.start, n),
                  !.calls = IF handled THEN Tail(t.calls) ELSE t.calls,
                  !.start = IF handled THEN 0 ELSE NextStart(t.start, t.count)]

\* the endpoint and the processor run() selects for a statistics target, lines 104-112
ClientMethod(target) ==
    IF target \in PAGE_STATS_EXTRACTION_TARGETS THEN "organizationPageStatistics"
    ELSE IF target \in FOLLOWER_STATS_EXTRACTION_TARGETS THEN "organizationalEntityFollowerStatistics"
    ELSE "organizationalEntityShareStatistics"

\* a selection that gives every statistic type the page processor
PageProcessorForAll(target) == "PageStatisticsProcessor"

StatisticsProcessorClass(target) ==
    IF target \in PAGE_STATS_EXTRACTION_TARGETS THEN "PageStatisticsProcessor"
    ELSE IF target \in FOLLOWER_STATS_EXTRACTION_TARGETS THEN "FollowerStatisticsProcessor"
    ELSE "ShareStatisticsProcessor"

\* set_processing_parameters of the three processors
StatisticsTypeName(processor) ==
    IF processor = "PageStatisticsProcessor" THEN "page"
    ELSE IF processor = "FollowerStatisticsProcessor" THEN "follower" ELSE "share"

OrganizationUrnFieldname(processor) ==
    IF processor = "PageStatisticsProcessor" THEN "organization" ELSE "organizationalEntity"

TimeBoundTableName(processor) == "time_bound_" \o StatisticsTypeName(processor) \o "_statistics"

TimeBoundPrimaryKey(processor) ==
    <<OrganizationUrnFieldname(processor), "timeRange_start", "timeRange_end">>

\* get_statistics_data_for_organization for every organization: the client method is
\* called with self.time_intervals as it stands
StatisticsCalls(urns, method, ti) ==
    [j \in 1..Len(urns) |-> Call(method, urns[j], "", ti, TRUE)]

\* StandardizedDataType, in definition order, with value and normalized_name
StandardizedDataType == <<"functions", "industries", "seniorities", "countries", "regions">>
StandardizedDataTypeMembers == {"FUNCTONS", "INDUSTRIES", "SENIORITIES", "COUNTRIES", "REGIONS"}

\* process_enum_element starts by reading StandardizedDataType.SKILLS
ProcessEnumElementRaises == "SKILLS" \notin StandardizedDataTypeMembers

\* get_posts_by_author(urn, is_dsc=True) then (urn, is_dsc=False), for every organization
PostsCalls(urns) ==
    [j \in 1..(2 * Len(urns)) |->
        Call("posts", urns[(j + 1) \div 2], IF j % 2 = 1 THEN "isDsc=true" ELSE "isDsc=false",
             NoTimeIntervals, TRUE)]

\* get_comments_on_post / get_likes_on_post for every post URN
SubobjectCalls(posts_urns, what) ==
    [j \in 1..Len(posts_urns) |-> Call("socialActions", posts_urns[j], what, NoTimeIntervals, TRUE)]

\* get_administered_organization for every organization
OrganizationCalls(urns) ==
    [j \in 1..Len(urns) |-> Call("organizations", urns[j], "", NoTimeIntervals, FALSE)]

\* the tables run() starts to build for its target, lines 104-124
FirstTables(cfg, urns, ti) ==
    IF cfg.target \in TIME_BOUND_STATS_EXTRACTION_TARGETS
    THEN LET processor == StatisticsProcessorClass(cfg.target)
         IN  <<NewTable(TimeBoundTableName(processor), TimeBoundPrimaryKey(processor),
                        TimeBoundPrimaryKey(processor) \o <<"count">>,
                        StatisticsCalls(urns, ClientMethod(cfg.target), ti), DEFAULT_PAGE_SIZE)>>
    ELSE IF cfg.target \in LIFETIME_STATS_EXTRACTION_TARGETS
    THEN <<NewTable("records_processed", <<>>, <<>>,
                    StatisticsCalls(urns, ClientMethod(cfg.target), ti), DEFAULT_PAGE_SIZE)>>
    ELSE IF cfg.target = "posts"
    THEN <<NewTable("posts", <<"id">>, <<"id", "author">>, PostsCalls(urns), POST_PAGE_SIZE)>>
    ELSE IF cfg.target = "enumerated_types"
    THEN [j \in 1..Len(StandardizedDataType) |->
             NewTable(StandardizedDataType[j], <<"id">>, <<"name", "id", "urn">>,
                      <<Call(StandardizedDataType[j], 0, "", NoTimeIntervals, TRUE)>>,
                      DEFAULT_PAGE_SIZE)]
    ELSE <<NewTable("organizations", <<"id">>, <<"id", "name">>, OrganizationCalls(urns),
                    DEFAULT_PAGE_SIZE)>>

\* run() lines 104-124: select the method and the processor, set up the record sources
RunDispatch ==
    /\ UNCHANGED notRun
    /\ r_pc = "dispatch"
    /\ r_sel' = IF r_cfg.target \in STATS_EXTRACTION_TARGETS
                THEN [method |-> ClientMethod(r_cfg.target),
                      processor |-> StatisticsProcessorClass(r_cfg.target)]
                ELSE r_sel
    /\ r_tables' = FirstTables(r_cfg, r_urns, r_ti)
    /\ r_k' = 1
    /\ r_pc' = IF r_cfg.target \in LIFETIME_STATS_EXTRACTION_TARGETS THEN "collect" ELSE "build"
    /\ UNCHANGED <<r_posts_urns, r_cfg, r_now, r_state, r_state_io, r_tmp_state, r_urns, r_ti, r_requests,
                   r_files, r_manifests, r_warnings, r_exc>>

\* create_table pulling the first record of table r_k: one request of its source
BuildFetch ==
    /\ UNCHANGED notRun
    /\ r_pc = "build"
    /\ ~r_tables[r_k].built
    /\ Len(r_tables[r_k].calls) > 0
    /\ Len(r_requests) < MaxRequests
    /\ LET t == r_tables[r_k]
       IN  \/ \E status \in ApiErrors :
                /\ r_requests' = Append(r_requests, Request(t, 0 - status))
                /\ Raise(RaisedByGet(status), RaisedByGet(status), "fetch")
                /\ UNCHANGED r_tables
           \/ \E n \in Responses(t) :
                /\ r_requests' = Append(r_requests, Request(t, n))
                /\ IF n = 0
                   THEN /\ r_tables' = [r_tables EXCEPT ![r_k] = AfterPage(t, 0)]
                        /\ UNCHANGED <<r_pc, r_exc>>
                   ELSE IF r_cfg.target = "enumerated_types" /\ ProcessEnumElementRaises
                   THEN /\ Raise("AttributeError", "AttributeError", "process_enum_element")
                        /\ r_tables' = [r_tables EXCEPT ![r_k] = AfterPage(t, n)]
                   ELSE IF MissingPrimaryKey(t.primary_key, normalize_header(t.record_columns))
                   THEN /\ Raise("ValueError", "ValueError", "create_table")
                        /\ r_tables' = [r_tables EXCEPT ![r_k] = AfterPage(t, n)]
                   ELSE /\ r_tables' = [r_tables EXCEPT ![r_k] =
                                           [AfterPage(t, n) EXCEPT
                                               !.buf = <<Head(Elements(Head(t.calls), t.start, n))>>,
                                               !.page_left = Tail(Elements(Head(t.calls), t.start, n)),
                                               !.columns = Columns(normalize_header(t.record_columns)),
                                               !.built = TRUE]]
                        /\ UNCHANGED <<r_pc, r_exc>>
    /\ UNCHANGED <<r_cfg, r_now, r_state, r_state_io, r_tmp_state, r_urns, r_ti, r_sel, r_k, r_posts_urns,
                   r_files, r_manifests, r_warnings>>

\* create_table finding the source of table r_k exhausted: lines 45-47
BuildNoRecords ==
    /\ UNCHANGED notRun
    /\ r_pc = "build"
    /\ ~r_tables[r_k].built
    /\ Len(r_tables[r_k].calls) = 0
    /\ r_tables' = [r_tables EXCEPT ![r_k].built = TRUE, ![r_k].columns = NoColumns]
    /\ r_warnings' = Append(r_warnings, "no records: " \o r_tables[r_k].name)
    /\ UNCHANGED <<r_pc, r_cfg, r_now, r_state, r_state_io, r_tmp_state, r_urns, r_ti, r_sel,
                   r_requests, r_k, r_posts_urns, r_files, r_manifests, r_exc>>

\* the rows get_refreshed_records_iterator reads back from the CSV file of a saved table:
\* the lines of the file, without the first one when the table wrote a header
HeaderLine == [call |-> Call("header", 0, "", NoTimeIntervals, FALSE), offset |-> 0]
CsvLines(file) == (IF file.header THEN <<HeaderLine>> ELSE <<>>) \o file.rows

\* a reading that yields every line of the file
ReadCsvEveryLine(file, header_included) == CsvLines(file)

ReadCsv(file, header_included) ==
    IF header_included THEN Tail(CsvLines(file)) ELSE CsvLines(file)

\* get_refreshed_records_iterator: the exhausted records of an empty table, or the rows of
\* the file the table was saved to
RefreshedRecords(t, files) ==
    IF t.is_empty = "True" THEN t.page_left
    ELSE ReadCsv(files[CHOOSE j \in 1..Len(files) : files[j].name = t.name \o ".csv"],
                 t.header_included)

\* the table create_table returned is in hand: the list comprehension of
\* get_all_standardized_data_enum_tables moves on, get_all_posts_based_tables goes on to
\* save the posts or to build the likes, and otherwise run() starts saving
BuildDone ==
    /\ UNCHANGED notRun
    /\ r_pc = "build"
    /\ r_tables[r_k].built
    /\ IF r_k < Len(r_tables)
       THEN /\ r_k' = r_k + 1
            /\ UNCHANGED <<r_pc, r_tables>>
       ELSE IF r_cfg.target = "posts" /\ Len(r_tables) = 1
       THEN /\ r_pc' = "posts_save"
            /\ UNCHANGED <<r_k, r_tables>>
       ELSE IF r_cfg.target = "posts" /\ Len(r_tables) = 2
       THEN /\ r_tables' = Append(r_tables,
                                  NewTable("likes", <<"$URN">>, <<"$URN", "post_urn">>,
                                           SubobjectCalls(r_posts_urns, "likes"), DEFAULT_PAGE_SIZE))
            /\ r_k' = 3
            /\ UNCHANGED r_pc
       ELSE /\ r_pc' = "save"
            /\ r_k' = 1
            /\ UNCHANGED r_tables
    /\ UNCHANGED <<r_cfg, r_now, r_state, r_state_io, r_tmp_state, r_urns, r_ti, r_sel,
                   r_posts_urns, r_requests, r_files, r_manifests, r_warnings, r_exc>>

\* organization records are assumed to carry these two breakdowns
BreakdownKeys == <<"countsByA", "countsByB">>

\* X_BY_Y_RE.match(name) on the field names of the model, and its first group
MatchesXByY(name) == name \in {"countsByA", "countsByB"}
DataKey(name) == "counts"

\* inflection.underscore and camelize(X_BY_Y_RE.match(name).group(2)) on the field names
Underscore(name) ==
    IF name = "countsByA" THEN "counts_by_a"
    ELSE IF name = "countsByB" THEN "counts_by_b" ELSE name
BreakdownField(name) == IF name = "countsByA" THEN "a" ELSE "b"

\* get_total_statistics_tables pulling every record into the list records_processed
CollectFetch ==
    /\ UNCHANGED notRun
    /\ r_pc = "collect"
    /\ Len(r_tables[1].calls) > 0
    /\ Len(r_requests) < MaxRequests
    /\ LET t == r_tables[1]
       IN  \/ \E status \in ApiErrors :
                /\ r_requests' = Append(r_requests, Request(t, 0 - status))
                /\ Raise(RaisedByGet(status), RaisedByGet(status), "fetch")
                /\ UNCHANGED r_tables
           \/ \E n \in Responses(t) :
                /\ r_requests' = Append(r_requests, Request(t, n))
                /\ r_tables' = [r_tables EXCEPT ![1] =
                                   [AfterPage(t, n) EXCEPT
                                       !.buf = t.buf \o Elements(Head(t.calls), t.start, n),
                                       !.page_left = <<>>]]
                /\ UNCHANGED <<r_pc, r_exc>>
    /\ UNCHANGED <<r_cfg, r_now, r_state, r_state_io, r_tmp_state, r_urns, r_ti, r_sel,
                   r_posts_urns, r_k, r_files, r_manifests, r_warnings>>

\* create_table over the list of rows of one breakdown
BreakdownTable(processor, key, rows) ==
    [NewTable(Underscore(key), <<OrganizationUrnFieldname(processor), BreakdownField(key)>>,
              <<BreakdownField(key), OrganizationUrnFieldname(processor), "count">>,
              <<>>, DEFAULT_PAGE_SIZE)
     EXCEPT !.buf = rows,
            !.columns = IF Len(rows) = 0 THEN NoColumns
                        ELSE Columns(normalize_header(<<BreakdownField(key),
                                                        OrganizationUrnFieldname(processor), "count">>)),
            !.built = TRUE]

\* get_total_statistics_tables from line 107 on: records_processed[0], then one table for
\* every key of the first record; a record contributes rows to a breakdown or none
CollectDone ==
    /\ UNCHANGED notRun
    /\ r_pc = "collect"
    /\ Len(r_tables[1].calls) = 0
    /\ IF Len(r_tables[1].buf) = 0
       THEN /\ Raise("IndexError", "IndexError", "get_total_statistics_tables")
            /\ UNCHANGED <<r_tables, r_k, r_warnings>>
       ELSE \E has_rows \in [1..Len(BreakdownKeys) -> BOOLEAN] :
               /\ r_tables' = [j \in 1..Len(BreakdownKeys) |->
                                  BreakdownTable(r_sel.processor, BreakdownKeys[j],
                                                 IF has_rows[j] THEN r_tables[1].buf ELSE <<>>)]
               /\ r_warnings' = r_warnings \o
                                   [j \in 1..Cardinality({i \in 1..Len(BreakdownKeys) : ~has_rows[i]}) |->
                                       "no records"]
               /\ r_k' = 1
               /\ r_pc' = "save"
               /\ UNCHANGED r_exc
    /\ UNCHANGED <<r_cfg, r_now, r_state, r_state_io, r_tmp_state, r_urns, r_ti, r_sel,
                   r_posts_urns, r_requests, r_files, r_manifests>>

\* Table._is_empty_internal on a table create_table returned
IsEmptyInternalOf(t) ==
    IF t.saved THEN FALSE
    ELSE IF t.columns.is_none THEN TRUE
    ELSE Len(t.buf) = 0 /\ Len(t.page_left) = 0 /\ Len(t.calls) = 0

\* Table.is_empty
IsEmptyOf(t) == IF t.is_empty = None THEN IsEmptyInternalOf(t) ELSE t.is_empty = "True"

\* where control goes once save_as_csv_with_manifest of table r_k has returned
AfterSave ==
    IF r_pc = "posts_save"
    THEN /\ r_pc' = "posts_reread"
         /\ UNCHANGED r_k
    ELSE IF r_k < Len(r_tables)
    THEN /\ r_k' = r_k + 1
         /\ UNCHANGED r_pc
    ELSE /\ r_pc' = "write_state"
         /\ UNCHANGED r_k

\* the first test of save_as_csv_with_manifest
AlreadySavedNever(t, overwrite) == FALSE

AlreadySaved(t, overwrite) == t.saved /\ ~overwrite

\* save_as_csv_with_manifest returning early: the table is saved already, or it is empty
SaveSkip ==
    /\ UNCHANGED notRun
    /\ r_pc \in {"save", "posts_save"}
    /\ LET t == r_tables[r_k]
       IN  \/ /\ AlreadySaved(t, FALSE)
              /\ UNCHANGED <<r_tables, r_warnings>>
           \/ /\ ~AlreadySaved(t, FALSE)
              /\ IsEmptyOf(t)
              /\ r_tables' = [r_tables EXCEPT ![r_k].is_empty = "True"]
              /\ r_warnings' = Append(r_warnings, "empty table: " \o t.name)
    /\ AfterSave
    /\ UNCHANGED <<r_cfg, r_now, r_state, r_state_io, r_tmp_state, r_urns, r_ti, r_sel,
                   r_posts_urns, r_requests, r_files, r_manifests, r_exc>>

CsvFile(t, header, rows, complete) ==
    [name |-> t.name \o ".csv", header |-> header, rows |-> rows, complete |-> complete]

\* writerows pulling on the source of table r_k: one request; when it is refused the
\* exception leaves the file with the rows written so far and no manifest
SaveFetch ==
    /\ UNCHANGED notRun
    /\ r_pc \in {"save", "posts_save"}
    /\ ~AlreadySaved(r_tables[r_k], FALSE)
    /\ ~IsEmptyOf(r_tables[r_k])
    /\ Len(r_tables[r_k].calls) > 0
    /\ Len(r_requests) < MaxRequests
    /\ LET t == r_tables[r_k]
       IN  \/ \E status \in ApiErrors :
                /\ r_requests' = Append(r_requests, Request(t, 0 - status))
                /\ Raise(RaisedByGet(status), RaisedByGet(status), "fetch")
                /\ r_files' = Append(r_files, CsvFile(t, r_cfg.debug, t.buf \o t.page_left, FALSE))
                /\ r_tables' = [r_tables EXCEPT ![r_k].is_empty = "False"]
           \/ \E n \in Responses(t) :
                /\ r_requests' = Append(r_requests, Request(t, n))
                /\ r_tables' = [r_tables EXCEPT ![r_k] =
                                   [AfterPage(t, n) EXCEPT
                                       !.buf = t.buf \o t.page_left \o Elements(Head(t.calls), t.start, n),
                                       !.page_left = <<>>,
                                       !.is_empty = "False"]]
                /\ UNCHANGED <<r_pc, r_exc, r_files>>
    /\ UNCHANGED <<r_cfg, r_now, r_state, r_state_io, r_tmp_state, r_urns, r_ti, r_sel,
                   r_posts_urns, r_k, r_manifests, r_warnings>>

\* save_as_csv_with_manifest once the source of table r_k is exhausted: the file is
\* complete, the manifest is written, the table is marked saved
SaveWrite ==
    /\ UNCHANGED notRun
    /\ r_pc \in {"save", "posts_save"}
    /\ ~AlreadySaved(r_tables[r_k], FALSE)
    /\ ~IsEmptyOf(r_tables[r_k])
    /\ Len(r_tables[r_k].calls) = 0
    /\ LET t == r_tables[r_k]
       IN  /\ r_files' = Append(r_files, CsvFile(t, r_cfg.debug, t.buf \o t.page_left, TRUE))
           /\ r_manifests' = Append(r_manifests,
                                    [name |-> t.name \o ".csv", columns |-> t.columns.names,
                                     primary_key |-> t.primary_key, incremental |-> r_cfg.incremental])
           /\ r_tables' = [r_tables EXCEPT ![r_k].saved = TRUE,
                                           ![r_k].header_included = r_cfg.debug,
                                           ![r_k].is_empty = "False",
                                           ![r_k].buf = <<>>,
                                           ![r_k].page_left = <<>>]
    /\ AfterSave
    /\ UNCHANGED <<r_cfg, r_now, r_state, r_state_io, r_tmp_state, r_urns, r_ti, r_sel,
                   r_posts_urns, r_requests, r_warnings, r_exc>>

\* get_all_posts_based_tables lines 190-196: the post URNs are read back from the posts
\* table and the comments table is set up
PostsReread ==
    /\ UNCHANGED notRun
    /\ r_pc = "posts_reread"
    /\ r_posts_urns' = RefreshedRecords(r_tables[1], r_files)
    /\ r_tables' = Append(r_tables,
                          NewTable("comments", <<"id">>, <<"id", "post_urn">>,
                                   SubobjectCalls(r_posts_urns', "comments"), DEFAULT_PAGE_SIZE))
    /\ r_k' = 2
    /\ r_pc' = "build"
    /\ UNCHANGED <<r_cfg, r_now, r_state, r_state_io, r_tmp_state, r_urns, r_ti, r_sel,
                   r_requests, r_files, r_manifests, r_warnings, r_exc>>

\* run() lines 128-129
RunWriteState ==
    /\ UNCHANGED notRun
    /\ r_pc = "write_state"
    /\ IF r_tmp_state.has
       THEN /\ r_state' = r_tmp_state
            /\ r_state_io' = [r_state_io EXCEPT !.writes = @ + 1]
       ELSE UNCHANGED <<r_state, r_state_io>>
    /\ r_pc' = "done"
    /\ UNCHANGED <<r_cfg, r_now, r_tmp_state, r_urns, r_ti, r_sel, r_posts_urns, r_requests,
                   r_tables, r_k, r_files, r_manifests, r_warnings, r_exc>>

NextRun ==
    \/ RunStart
    \/ RunGetOrganizationUrns
    \/ RunSetTimeIntervals
    \/ RunDispatch
    \/ BuildFetch
    \/ BuildNoRecords
    \/ BuildDone
    \/ CollectFetch
    \/ CollectDone
    \/ SaveSkip
    \/ SaveFetch
    \/ SaveWrite
    \/ PostsReread
    \/ RunWriteState

SpecRun == InitRun /\ [][NextRun]_vars

(***************************************************************************)
(* Properties of a run                                                     *)
(***************************************************************************)

StatisticsEndpoints ==
    {"organizationPageStatistics", "organizationalEntityFollowerStatistics",
     "organizationalEntityShareStatistics"}

\* the exceptions raised before any record source is set up
ConfigurationSites == {"organization_ids", "access_token", "sync_options", "time_range", "organization_acls"}

\* every request for data was answered, and with zero elements
AllDataAnswersEmpty ==
    \A j \in 1..Len(r_requests) :
        r_requests[j].endpoint # "organizationAcls" => r_requests[j].n = 0

\* C5: a LinkedInClientException raised while a page of page, follower or share
\* statistics is fetched leaves run() as a UserException, never as a raw
\* LinkedInClientException.
C5_ClientErrorBecomesUserException ==
    (/\ r_pc = "raised"
     /\ r_cfg.target \in STATS_EXTRACTION_TARGETS
     /\ r_exc.site = "fetch"
     /\ r_exc.raised = "LinkedInClientException")
    => r_exc.kind = "UserException"

\* C7: in a run for a time-bound statistics target every request sent to a statistics
\* endpoint carries a timeIntervals range of at most MAXIMUM_TIME_RANGE_SIZE.
C7_RequestsWithinMaximumSpan ==
    r_cfg.target \in TIME_BOUND_STATS_EXTRACTION_TARGETS =>
        \A j \in 1..Len(r_requests) :
            r_requests[j].endpoint \in StatisticsEndpoints => WithinMaximumSpan(r_requests[j].ti)

\* C9: for every extraction target, a run whose data requests are all answered with zero
\* elements does not fail once its configuration is accepted, and when it has completed
\* every table has columns None and neither a CSV file nor a manifest was written.
C9_EmptyResultIsNotAnError ==
    AllDataAnswersEmpty =>
        /\ r_pc = "raised" => r_exc.site \in ConfigurationSites
        /\ r_pc = "done" =>
              /\ r_files = <<>>
              /\ r_manifests = <<>>
              /\ \A k \in 1..Len(r_tables) : r_tables[k].columns.is_none

\* the run is for a time-bound statistics target and its resolved range has start = end
ZeroLengthRange ==
    /\ r_cfg.target \in TIME_BOUND_STATS_EXTRACTION_TARGETS
    /\ ~r_ti.is_none
    /\ length_in_days(r_ti.time_range) = 0

\* C11: a run for a time-bound statistics target whose resolved range has start = end
\* sends no API request at all, persists no table, logs a warning and returns normally.
C11_ZeroLengthRangeCallsNoApi ==
    ZeroLengthRange =>
        /\ r_requests = <<>>
        /\ r_files = <<>>
        /\ r_manifests = <<>>
        /\ r_pc = "done"
        /\ r_warnings = <<"empty time range">>

\* C12: a run for a time-bound statistics target that completes without error leaves the
\* persisted watermark equal to min(now, end of the range) in ISO format, having read the
\* state once and written it once.
C12_WatermarkPersisted ==
    (r_pc = "done" /\ r_cfg.target \in TIME_BOUND_STATS_EXTRACTION_TARGETS) =>
        /\ r_state = StateWith(IsoString(Min(r_now, r_ti.time_range.end)))
        /\ r_state_io = [reads |-> 1, writes |-> 1]

\* no file name occurs twice in a sequence of written files or manifests
NoNameTwice(written) ==
    \A i, j \in 1..Len(written) : written[i].name = written[j].name => i = j

\* C13: a save_as_csv_with_manifest call on a table that is saved already writes no CSV
\* and no manifest and leaves the table as it is, and no table name is written twice in
\* a run, the posts table (saved inside get_all_posts_based_tables, offered again by the
\* save loop of run()) included.
C13_SaveIsIdempotent ==
    [][/\ (r_pc \in {"save", "posts_save"} /\ r_tables[r_k].saved) =>
              /\ r_tables' = r_tables
              /\ r_files' = r_files
              /\ r_manifests' = r_manifests
       /\ NoNameTwice(r_files')
       /\ NoNameTwice(r_manifests')]_vars

\* the save loop of run() was offered the saved posts table again and went past it
C13_Witness ==
    /\ r_cfg.target = "posts"
    /\ r_pc = "save"
    /\ r_k = 2
    /\ r_tables[1].saved
    /\ Len(r_files) = 1
    /\ r_files[1].name = "posts.csv"

(***************************************************************************)
(* The statistics processors, flatten_dict and URN as functions            *)
(***************************************************************************)

\* d[k] of a dict that has the key
Get(d, k) == (CHOOSE it \in {d.items[j] : j \in 1..Len(d.items)} : it.k = k).v

\* the dict after d.pop(k)
RECURSIVE WithoutKey(_, _)
WithoutKey(items, k) ==
    IF items = <<>> THEN <<>>
    ELSE (IF Head(items).k = k THEN <<>> ELSE <<Head(items)>>) \o WithoutKey(Tail(items), k)

\* the dict after d.update(other)
DictUpdate(d, other) == DictFromItems(d.items \o other.items, <<>>)

\* the table create_table returns, with the rows its record pipeline delivers when it is
\* consumed to the end, or the ValueError it raises
TableOf(table_name, columns, primary_key, rows) ==
    [raised |-> None, name |-> table_name, columns |-> columns, primary_key |-> primary_key,
     rows |-> rows]

create_table(records, table_name, primary_key, args) ==
    IF records = <<>> THEN TableOf(table_name, NoColumns, primary_key, <<>>)
    ELSE LET first   == Head(records)
             denorm  == Keys(IF args.flatten_records THEN flatten_dict(first, "", "_") ELSE first)
             columns == InferColumns(first, args)
             mapping == IF args.normalize_header THEN ColumnNameMapping(denorm, columns) ELSE <<>>
         IN IF MissingPrimaryKey(primary_key, columns)
            THEN [TableOf(table_name, NoColumns, primary_key, <<>>) EXCEPT !.raised = "ValueError"]
            ELSE TableOf(table_name, Columns(columns), primary_key,
                         [j \in 1..Len(records) |-> ProcessRecord(records[j], args, mapping)])

\* the defaults of create_table: flatten_records=True, normalize_header=True
DefaultArgs(primary_key) ==
    [primary_key |-> primary_key, flatten_records |-> TRUE, normalize_header |-> TRUE]

Processors == {"PageStatisticsProcessor", "FollowerStatisticsProcessor", "ShareStatisticsProcessor"}

\* set_processing_parameters: total_statistics_fieldname
TotalStatisticsFieldname(processor) ==
    IF processor = "FollowerStatisticsProcessor" THEN "followerGains"
    ELSE IF processor = "PageStatisticsProcessor" THEN "totalPageStatistics"
    ELSE "totalShareStatistics"

\* milliseconds_since_epoch_to_datetime: a datetime is kept by its milliseconds since the
\* epoch; isoformat(timespec="seconds") drops what is below a second
isoformat_date_only(dt) == [format |-> "iso", second |-> 0]

isoformat_seconds(dt) == [format |-> "iso", second |-> dt \div 1000]

\* TimeRange.from_api_dict(d).to_serializable_dict()
from_api_dict(d) == [start |-> Get(d, "start").v, end |-> Get(d, "end").v]

to_serializable_dict(time_range) ==
    Dict(<<Item("start", Val(isoformat_seconds(time_range.start))),
           Item("end", Val(isoformat_seconds(time_range.end)))>>)

\* process_time_bound_element
process_time_bound_element(element, processor) ==
    LET total == TotalStatisticsFieldname(processor)
        processed_element == DictUpdate(Dict(WithoutKey(element.items, total)), Get(element, total))
    IN IF HasKey(processed_element, "timeRange")
       THEN DictUpdate(processed_element,
                       Dict(<<Item("timeRange",
                                   to_serializable_dict(from_api_dict(Get(processed_element, "timeRange"))))>>))
       ELSE processed_element

\* get_time_bound_statistics_table
get_time_bound_statistics_table(records, processor) ==
    create_table([j \in 1..Len(records) |-> process_time_bound_element(records[j], processor)],
                 TimeBoundTableName(processor), TimeBoundPrimaryKey(processor),
                 DefaultArgs(TimeBoundPrimaryKey(processor)))

\* the elements a time-bound statistics endpoint returns: the organization, the time range
\* in milliseconds since the epoch with start <= end, and the aggregate sub-object
ApiTimeRanges == {<<0, 1000>>, <<500, 1000>>, <<1000, 2000>>}
Aggregates ==
    {Dict(<<Item("x", Val(1))>>), Dict(<<Item("views", Dict(<<Item("all", Val(2))>>))>>)}

TimeBoundElements(processor) ==
    {Dict(<<Item(OrganizationUrnFieldname(processor), Val(org)),
            Item("timeRange", Dict(<<Item("start", Val(tr[1])), Item("end", Val(tr[2]))>>)),
            Item(TotalStatisticsFieldname(processor), agg)>>) :
        org \in 1..MaxOrgs, tr \in ApiTimeRanges, agg \in Aggregates}

TimeBoundCalls ==
    {[fn |-> "get_time_bound_statistics_table", processor |-> pr, records |-> recs] :
        pr \in Processors, recs \in UNION {SeqsUpTo(TimeBoundElements(p), MaxRecs) : p \in Processors}}

\* the dicts flatten_dict is called on: values that are no mappings (numbers, lists, lists
\* of mappings), and mappings nested up to three deep, one with keys whose joined paths
\* coincide
FlattenLeaves ==
    {Val(1), Val(2), List(<<Val(1), Val(2)>>), List(<<Dict(<<Item("b", Val(1))>>)>>)}
FlattenKeys == {<<"a">>, <<"d">>, <<"b", "c">>, <<"a_b", "a">>}

DictsOver(values) ==
    {Dict(<<>>)} \cup
    UNION {{Dict([j \in 1..Len(ks) |-> Item(ks[j], vs[j])]) : vs \in [1..Len(ks) -> values]} :
              ks \in FlattenKeys}

FlattenInputs1 == DictsOver(FlattenLeaves)
FlattenInputs2 == DictsOver(FlattenLeaves \cup FlattenInputs1)
FlattenInputs3 == {Dict(<<Item("a", d)>>) : d \in FlattenInputs2}

FlattenCalls ==
    {[fn |-> "flatten_dict", d |-> d] : d \in FlattenInputs2 \cup FlattenInputs3}

\* ---------------------------------------------------------------- URN

\* a string is a sequence of characters; the literal "urn:li:" is kept as one character
UrnPrefix == "urn:li:"
Alphabet == {UrnPrefix, "a", "0", "1", ":", "-"}
WordChars == {"a", "0", "1"}
DigitChars == {"0", "1"}
Digits == <<"0", "1", "2", "3", "4", "5", "6", "7", "8", "9">>

\* the length of the longest prefix of s made of characters of cs: a greedy \w+ or \d+
RECURSIVE RunLength(_, _)
RunLength(s, cs) ==
    IF s = <<>> \/ Head(s) \notin cs THEN 0 ELSE 1 + RunLength(Tail(s), cs)

\* int(digits)
RECURSIVE ParseInt(_, _)
ParseInt(digits, acc) ==
    IF digits = <<>> THEN acc
    ELSE ParseInt(Tail(digits), 10 * acc + (CHOOSE k \in 0..9 : Digits[k + 1] = Head(digits)))

\* str(n) of an int
RECURSIVE IntToStr(_)
IntToStr(n) ==
    IF n < 0 THEN <<"-">> \o IntToStr(0 - n)
    ELSE IF n < 10 THEN <<Digits[n + 1]>>
    ELSE IntToStr(n \div 10) \o <<Digits[(n % 10) + 1]>>

\* s has the canonical form urn:li:<entity_type>:<id> and nothing else
CanonicalUrnString(s) ==
    /\ Len(s) >= 4
    /\ Head(s) = UrnPrefix
    /\ LET w == RunLength(Tail(s), WordChars)
       IN  /\ w >= 1
           /\ Len(s) > 1 + w + 1
           /\ s[1 + w + 1] = ":"
           /\ RunLength(SubSeq(s, 1 + w + 2, Len(s)), DigitChars) = Len(s) - (1 + w + 1)

\* URN_RE.match(s): the pattern urn:li:(\w+):(\d+) at the start of s
MatchesUrnRe(s) ==
    /\ Len(s) >= 4
    /\ Head(s) = UrnPrefix
    /\ LET w == RunLength(Tail(s), WordChars)
       IN  /\ w >= 1
           /\ Len(s) > 1 + w + 1
           /\ s[1 + w + 1] = ":"
           /\ RunLength(SubSeq(s, 1 + w + 2, Len(s)), DigitChars) >= 1

UrnOf(entity_type, id) == [raised |-> None, entity_type |-> entity_type, id |-> id]
UrnValueError == [raised |-> "ValueError", entity_type |-> <<>>, id |-> 0]

\* URN.from_str
from_str(s) ==
    IF MatchesUrnRe(s)
    THEN LET w == RunLength(Tail(s), WordChars)
             g == RunLength(SubSeq(s, 1 + w + 2, Len(s)), DigitChars)
         IN  UrnOf(SubSeq(s, 2, 1 + w), ParseInt(SubSeq(s, 1 + w + 2, 1 + w + 1 + g), 0))
    ELSE UrnValueError

\* URN.__str__
UrnStr(u) == <<UrnPrefix>> \o u.entity_type \o <<":">> \o IntToStr(u.id)

UrnStrings == SeqsUpTo(Alphabet, MaxUrnLen)
Urns == {UrnOf(e, n) : e \in SeqsUpTo({"a", "1", ":"}, 2), n \in {0 - 1, 0, 1, 10}}

UrnCalls ==
    {[fn |-> "URN.from_str", s |-> s] : s \in UrnStrings}
    \cup {[fn |-> "URN.__str__", u |-> u] : u \in Urns}

\* URN.from_str(s), and str() of the URN it returned
UrnFromStr ==
    /\ UNCHANGED notData
    /\ d_pc = "call"
    /\ d_call.fn = "URN.from_str"
    /\ d_out' = [urn |-> from_str(d_call.s),
                 str |-> IF from_str(d_call.s).raised = None THEN UrnStr(from_str(d_call.s)) ELSE <<>>]
    /\ d_pc' = "done"
    /\ UNCHANGED d_call

\* str(u), and URN.from_str of the string it returned
UrnToStr ==
    /\ UNCHANGED notData
    /\ d_pc = "call"
    /\ d_call.fn = "URN.__str__"
    /\ d_out' = [str |-> UrnStr(d_call.u), urn |-> from_str(UrnStr(d_call.u))]
    /\ d_pc' = "done"
    /\ UNCHANGED d_call

\* ------------------------------------------------- lifetime statistics records

\* dict d with d[k] = v set
DictSet(d, k, v) == DictFromItems(Append(d.items, Item(k, v)), <<>>)

\* what process_organization_record does to one element of a list-valued field
ProcessListElement(table_record, data_key, fieldname, organization_urn) ==
    LET with_urn == DictSet(table_record, fieldname, organization_urn)
    IN  DictUpdate(Dict(WithoutKey(with_urn.items, data_key)), Get(with_urn, data_key))

\* a wrapping of the object that leaves the organization URN out
ProcessSingleObjectWithoutUrn(table_records, fieldname, organization_urn) ==
    List(<<table_records>>)

\* what process_organization_record does to a dict-valued field
ProcessSingleObject(table_records, fieldname, organization_urn) ==
    List(<<DictSet(table_records, fieldname, organization_urn)>>)

\* the exception one sibling field makes process_organization_record raise, or None
FieldRaises(it) ==
    IF it.v.t = "list"
    THEN (IF ~MatchesXByY(it.k) THEN "AttributeError"
          ELSE IF \E j \in 1..Len(it.v.items) : ~HasKey(it.v.items[j], DataKey(it.k))
          THEN "KeyError" ELSE None)
    ELSE IF it.v.t = "dict" THEN None
    ELSE "ValueError"

\* process_organization_record: the record with every sibling field turned into a list
\* of rows, or the exception of the first field that raises
process_organization_record(record, processor) ==
    LET fieldname == OrganizationUrnFieldname(processor)
        organization_urn == Get(record, fieldname)
        siblings == WithoutKey(record.items, fieldname)
        failing == {j \in 1..Len(siblings) : FieldRaises(siblings[j]) # None}
    IN  IF ~HasKey(record, fieldname)
        THEN [raised |-> "KeyError", value |-> Dict(<<>>)]
        ELSE IF failing # {}
        THEN [raised |-> FieldRaises(siblings[CHOOSE j \in failing : \A i \in failing : j <= i]),
              value |-> Dict(<<>>)]
        ELSE [raised |-> None,
              value |-> Dict([j \in 1..Len(siblings) |->
                          Item(siblings[j].k,
                               IF siblings[j].v.t = "list"
                               THEN List([i \in 1..Len(siblings[j].v.items) |->
                                            ProcessListElement(siblings[j].v.items[i],
                                                               DataKey(siblings[j].k),
                                                               fieldname, organization_urn)])
                               ELSE ProcessSingleObject(siblings[j].v, fieldname,
                                                        organization_urn))])]

\* the primary key get_total_statistics_tables gives the table of a field
TotalPrimaryKey(processor, table_name) ==
    IF MatchesXByY(table_name)
    THEN <<OrganizationUrnFieldname(processor), BreakdownField(table_name)>>
    ELSE <<OrganizationUrnFieldname(processor)>>

\* the rows of the field table_name of every processed record, one list after the other
RECURSIVE ChainRows(_, _)
ChainRows(records_processed, table_name) ==
    IF records_processed = <<>> THEN <<>>
    ELSE Get(Head(records_processed), table_name).items
         \o ChainRows(Tail(records_processed), table_name)

\* get_total_statistics_tables: the tables, or the first exception raised on the way
get_total_statistics_tables(records, processor) ==
    LET results == [j \in 1..Len(records) |-> process_organization_record(records[j], processor)]
        records_processed == [j \in 1..Len(records) |-> results[j].value]
        table_names == Keys(records_processed[1])
        tables == [j \in 1..Len(table_names) |->
                      create_table(ChainRows(records_processed, table_names[j]),
                                   Underscore(table_names[j]),
                                   TotalPrimaryKey(processor, table_names[j]),
                                   DefaultArgs(TotalPrimaryKey(processor, table_names[j])))]
    IN  IF \E j \in 1..Len(records) : results[j].raised # None
        THEN [raised |-> results[CHOOSE j \in 1..Len(records) :
                                    /\ results[j].raised # None
                                    /\ \A i \in 1..(j - 1) : results[i].raised = None].raised,
              tables |-> <<>>]
        ELSE IF records = <<>> THEN [raised |-> "IndexError", tables |-> <<>>]
        ELSE IF \E n \in 1..Len(table_names), j \in 1..Len(records) :
                   ~HasKey(records_processed[j], table_names[n])
        THEN [raised |-> "KeyError", tables |-> <<>>]
        ELSE IF \E j \in 1..Len(tables) : tables[j].raised # None
        THEN [raised |-> "ValueError", tables |-> <<>>]
        ELSE [raised |-> None, tables |-> tables]

\* the lifetime records the processors are called on: the organization and up to two
\* sibling fields; a breakdown is a list of elements or one element, each element with
\* the X sub-object and the Y value; "total" is no breakdown
BreakdownElement(table_name, y) ==
    Dict(<<Item(DataKey(table_name), Dict(<<Item("n", Val(y))>>)),
           Item(BreakdownField(table_name), Val(y))>>)

BreakdownFields ==
    UNION {{Item(name, List(<<>>)),
            Item(name, List(<<BreakdownElement(name, 1)>>)),
            Item(name, List(<<BreakdownElement(name, 1), BreakdownElement(name, 2)>>)),
            Item(name, BreakdownElement(name, 1))} : name \in {"countsByA", "countsByB"}}

OtherFields ==
    {Item("total", Dict(<<Item("n", Val(1))>>)), Item("total", Val(1)), Item("total", List(<<>>))}

DistinctKeys(items) == \A i, j \in 1..Len(items) : items[i].k = items[j].k => i = j

LifetimeRecords(processor, fields) ==
    {Dict(<<Item(OrganizationUrnFieldname(processor), Val(org))>> \o siblings) :
        org \in 1..MaxOrgs, siblings \in {s \in SeqsUpTo(fields, 2) : DistinctKeys(s)}}

ProcessRecordCalls ==
    {[fn |-> "process_organization_record", processor |-> pr, record |-> rec] :
        pr \in {"PageStatisticsProcessor", "FollowerStatisticsProcessor"},
        rec \in LifetimeRecords("PageStatisticsProcessor", BreakdownFields \cup OtherFields)
                \cup LifetimeRecords("FollowerStatisticsProcessor", BreakdownFields \cup OtherFields)}

TotalTablesCalls ==
    {[fn |-> "get_total_statistics_tables", processor |-> "FollowerStatisticsProcessor",
      records |-> recs] :
        recs \in SeqsUpTo({r \in LifetimeRecords("FollowerStatisticsProcessor", BreakdownFields) :
                              \A j \in 2..Len(r.items) : r.items[j].v.t = "list"
                                                         /\ Len(r.items[j].v.items) <= 1},
                          MaxRecs)}

\* process_organization_record(record)
ProcessOrganizationRecord ==
    /\ UNCHANGED notData
    /\ d_pc = "call"
    /\ d_call.fn = "process_organization_record"
    /\ d_out' = process_organization_record(d_call.record, d_call.processor)
    /\ d_pc' = "done"
    /\ UNCHANGED d_call

\* OrganizationStatisticsProcessor.get_result_tables with time_intervals None
GetTotalTables ==
    /\ UNCHANGED notData
    /\ d_pc = "call"
    /\ d_call.fn = "get_total_statistics_tables"
    /\ d_out' = get_total_statistics_tables(d_call.records, d_call.processor)
    /\ d_pc' = "done"
    /\ UNCHANGED d_call

DataCalls ==
    {c \in TimeBoundCalls :
        \A j \in 1..Len(c.records) : c.records[j] \in TimeBoundElements(c.processor)}
    \cup FlattenCalls
    \cup UrnCalls
    \cup ProcessRecordCalls
    \cup TotalTablesCalls

InitData ==
    /\ SeqIdle
    /\ PagIdle
    /\ p_count = 1
    /\ p_srv = [kind |-> "total", n |-> 0, script |-> <<>>]
    /\ ChunkIdle
    /\ TabIdle
    /\ RunIdle
    /\ d_pc = "call"
    /\ d_call \in DataCalls
    /\ d_out = None

\* OrganizationStatisticsProcessor.get_result_tables with time_intervals set
GetTimeBoundTable ==
    /\ UNCHANGED notData
    /\ d_pc = "call"
    /\ d_call.fn = "get_time_bound_statistics_table"
    /\ d_out' = <<get_time_bound_statistics_table(d_call.records, d_call.processor)>>
    /\ d_pc' = "done"
    /\ UNCHANGED d_call

\* flatten_dict(d)
FlattenDict ==
    /\ UNCHANGED notData
    /\ d_pc = "call"
    /\ d_call.fn = "flatten_dict"
    /\ d_out' = flatten_dict(d_call.d, "", "_")
    /\ d_pc' = "done"
    /\ UNCHANGED d_call

NextData ==
    \/ GetTimeBoundTable
    \/ FlattenDict
    \/ UrnFromStr
    \/ UrnToStr
    \/ ProcessOrganizationRecord
    \/ GetTotalTables

SpecData == InitData /\ [][NextData]_vars

\* the primary-key tuple of a row
PkTuple(row, primary_key) == [j \in 1..Len(primary_key) |-> Get(row, primary_key[j])]

\* the time range of an input element in whole seconds
RangeSeconds(element) ==
    <<Get(Get(element, "timeRange"), "start").v \div 1000,
      Get(Get(element, "timeRange"), "end").v \div 1000>>

\* the time range of an input element as the API gave it
RangeMilliseconds(element) ==
    <<Get(Get(element, "timeRange"), "start").v, Get(Get(element, "timeRange"), "end").v>>

\* one table with the time-bound primary key, a row for every input record in input
\* order, each row with the organization, the aggregate's fields at top level and the two
\* time range columns
TimeBoundTableShape ==
    LET pr    == d_call.processor
        recs  == d_call.records
        org   == OrganizationUrnFieldname(pr)
        total == TotalStatisticsFieldname(pr)
        t     == d_out[1]
    IN  /\ Len(d_out) = 1
        /\ t.raised = None
        /\ t.name = TimeBoundTableName(pr)
        /\ t.primary_key = <<org, "timeRange_start", "timeRange_end">>
        /\ Len(t.rows) = Len(recs)
        /\ \A i \in 1..Len(recs) :
              LET row == t.rows[i]
                  agg == flatten_dict(Get(recs[i], total), "", "_")
              IN  /\ Get(row, org) = Get(recs[i], org)
                  /\ Get(row, "timeRange_start").v.second = RangeSeconds(recs[i])[1]
                  /\ Get(row, "timeRange_end").v.second = RangeSeconds(recs[i])[2]
                  /\ ~HasKey(row, total)
                  /\ \A j \in 1..Len(row.items) : row.items[j].v.t # "dict"
                  /\ \A j \in 1..Len(agg.items) :
                        HasKey(row, agg.items[j].k) /\ Get(row, agg.items[j].k) = agg.items[j].v
                  /\ Len(row.items) = 3 + Len(agg.items)

\* C14 as stated: get_result_tables of a time-bound processor fed n records returns one
\* table with primary key [organization field, timeRange_start, timeRange_end] and n rows
\* in input order with the aggregate inlined, and records that differ in organization or
\* in time range have distinct primary-key tuples.
C14_DistinctKeysForDistinctRanges ==
    (d_pc = "done" /\ d_call.fn = "get_time_bound_statistics_table") =>
        /\ TimeBoundTableShape
        /\ \A i, j \in 1..Len(d_call.records) :
              (\/ Get(d_call.records[i], OrganizationUrnFieldname(d_call.processor))
                     # Get(d_call.records[j], OrganizationUrnFieldname(d_call.processor))
               \/ RangeMilliseconds(d_call.records[i]) # RangeMilliseconds(d_call.records[j]))
              => PkTuple(d_out[1].rows[i], d_out[1].primary_key)
                    # PkTuple(d_out[1].rows[j], d_out[1].primary_key)

\* C14, amended: the same table, and records that differ in organization or in the whole
\* seconds of the start or the end of their time range have distinct primary-key tuples.
C14_TimeBoundTable ==
    (d_pc = "done" /\ d_call.fn = "get_time_bound_statistics_table") =>
        /\ TimeBoundTableShape
        /\ \A i, j \in 1..Len(d_call.records) :
              (\/ Get(d_call.records[i], OrganizationUrnFieldname(d_call.processor))
                     # Get(d_call.records[j], OrganizationUrnFieldname(d_call.processor))
               \/ RangeSeconds(d_call.records[i]) # RangeSeconds(d_call.records[j]))
              => PkTuple(d_out[1].rows[i], d_out[1].primary_key)
                    # PkTuple(d_out[1].rows[j], d_out[1].primary_key)

\* two records of one organization with different time ranges became two rows
C14_Witness ==
    /\ d_pc = "done"
    /\ d_call.fn = "get_time_bound_statistics_table"
    /\ Len(d_call.records) = 2
    /\ Get(d_call.records[1], OrganizationUrnFieldname(d_call.processor))
          = Get(d_call.records[2], OrganizationUrnFieldname(d_call.processor))
    /\ RangeSeconds(d_call.records[1]) # RangeSeconds(d_call.records[2])
    /\ Len(d_out[1].rows) = 2

\* the values of d that are no mappings, each with the path of keys that leads to it, in
\* iteration order
RECURSIVE LeavesOfItems(_, _)
LeavesOfItems(items, prefix) ==
    IF items = <<>> THEN <<>>
    ELSE (IF Head(items).v.t = "dict"
          THEN LeavesOfItems(Head(items).v.items, Append(prefix, Head(items).k))
          ELSE <<[path |-> Append(prefix, Head(items).k), v |-> Head(items).v]>>)
         \o LeavesOfItems(Tail(items), prefix)

\* the keys of a path joined by '_'
RECURSIVE JoinPath(_)
JoinPath(path) ==
    IF Len(path) = 1 THEN path[1] ELSE path[1] \o "_" \o JoinPath(Tail(path))

FlattenExample1 ==
    Dict(<<Item("a", Dict(<<Item("b", Val(1)), Item("c", Dict(<<Item("d", Val(2))>>))>>))>>)
FlattenExample2 == Dict(<<Item("a", List(<<Val(1), Val(2)>>))>>)

\* the result has no mapping-valued entry, its keys are joined paths of the input, and
\* the two worked examples come out as documented
FlattenShape ==
    LET leaves == LeavesOfItems(d_call.d.items, <<>>)
    IN  /\ \A j \in 1..Len(d_out.items) : d_out.items[j].v.t # "dict"
        /\ \A j \in 1..Len(d_out.items) :
              \E i \in 1..Len(leaves) : d_out.items[j].k = JoinPath(leaves[i].path)
        /\ \A i \in 1..Len(leaves) : HasKey(d_out, JoinPath(leaves[i].path))
        /\ d_call.d = FlattenExample1 => d_out = Dict(<<Item("a_b", Val(1)), Item("a_c_d", Val(2))>>)
        /\ d_call.d = FlattenExample2 => d_out = FlattenExample2

\* C15 as stated: flatten_dict turns nested mappings of any depth into top-level entries
\* keyed by the '_'-joined path, the result has no mapping-valued entry, and every value
\* that is no mapping (lists and lists of mappings included) is found unchanged under its
\* path key.
C15_EveryLeafUnderItsPath ==
    (d_pc = "done" /\ d_call.fn = "flatten_dict") =>
        /\ FlattenShape
        /\ \A i \in 1..Len(LeavesOfItems(d_call.d.items, <<>>)) :
              LET leaf == LeavesOfItems(d_call.d.items, <<>>)[i]
              IN  Get(d_out, JoinPath(leaf.path)) = leaf.v

\* C15, amended: the same, where a value is found unchanged under its path key unless a
\* later value of the input has the same joined path; of several values with one joined
\* path the last is kept.
C15_LastLeafUnderItsPath ==
    (d_pc = "done" /\ d_call.fn = "flatten_dict") =>
        /\ FlattenShape
        /\ \A i \in 1..Len(LeavesOfItems(d_call.d.items, <<>>)) :
              LET leaves == LeavesOfItems(d_call.d.items, <<>>)
              IN  (\A j \in (i + 1)..Len(leaves) : JoinPath(leaves[j].path) # JoinPath(leaves[i].path))
                  => Get(d_out, JoinPath(leaves[i].path)) = leaves[i].v

\* a mapping nested three deep was flattened
C15_Witness ==
    /\ d_pc = "done"
    /\ d_call.fn = "flatten_dict"
    /\ d_call.d = FlattenExample1
    /\ Keys(d_out) = <<"a_b", "a_c_d">>

\* C16: URN.from_str succeeds only on strings of the canonical form
\* urn:li:<entity_type>:<id> and raises ValueError on every other string; for every string
\* s it accepts str(URN.from_str(s)) = s, and for every URN u URN.from_str(str(u)) = u.
C16_UrnRoundTrip ==
    /\ (d_pc = "done" /\ d_call.fn = "URN.from_str") =>
          /\ d_out.urn.raised = None <=> CanonicalUrnString(d_call.s)
          /\ d_out.urn.raised = None => d_out.str = d_call.s
    /\ (d_pc = "done" /\ d_call.fn = "URN.__str__") =>
          d_out.urn = d_call.u

\* ------------------------------------------------------------ claims C17, C18

\* the names of the sibling fields of the records, the organization field left out
SiblingNames(records, processor) ==
    UNION {{records[j].items[i].k : i \in 1..Len(records[j].items)} : j \in 1..Len(records)}
    \ {OrganizationUrnFieldname(processor)}

\* the processed rows of one field over all records, in record order
RECURSIVE RowsOfName(_, _, _)
RowsOfName(records, processor, name) ==
    IF records = <<>> THEN <<>>
    ELSE (IF HasKey(Head(records), name)
          THEN Get(process_organization_record(Head(records), processor).value, name).items
          ELSE <<>>)
         \o RowsOfName(Tail(records), processor, name)

\* C17: get_total_statistics_tables over a non-empty list of lifetime records returns
\* exactly one table for every breakdown name that appears in any record; the rows of
\* that table are the rows of this breakdown from every record, in record order, and its
\* primary key is the organization field followed by the camelCase form of Y.
C17_OneTablePerBreakdownName ==
    (d_pc = "done" /\ d_call.fn = "get_total_statistics_tables" /\ d_call.records # <<>>)
    => LET names == SiblingNames(d_call.records, d_call.processor)
           pk(name) == <<OrganizationUrnFieldname(d_call.processor), BreakdownField(name)>>
       IN  /\ d_out.raised = None
           /\ Len(d_out.tables) = Cardinality(names)
           /\ \A name \in names :
                \E j \in 1..Len(d_out.tables) :
                    d_out.tables[j] =
                        create_table(RowsOfName(d_call.records, d_call.processor, name),
                                     Underscore(name), pk(name), DefaultArgs(pk(name)))

\* the entries of a dict, their order left aside
ItemSet(d) == {d.items[j] : j \in 1..Len(d.items)}

\* an element with the organization URN added and the X sub-object put in place of the
\* X key
Inlined(element, name, fieldname, organization_urn) ==
    ({it \in ItemSet(element) : it.k # DataKey(name)}
     \cup {Item(fieldname, organization_urn)})
    \cup ItemSet(Get(element, DataKey(name)))

\* C18: process_organization_record turns a list-valued 'XByY' field into the same list
\* with the organization URN added to, and the X sub-object inlined in, every element; a
\* single object into a one-element list holding the object after the same inlining; and
\* fails with ValueError on a value that is neither a list nor an object.
C18_FieldsByShape ==
    (/\ d_pc = "done"
     /\ d_call.fn = "process_organization_record"
     /\ HasKey(d_call.record, OrganizationUrnFieldname(d_call.processor))
     /\ \A j \in 1..Len(d_call.record.items) :
            d_call.record.items[j].v.t \in {"list", "dict"} =>
                \/ d_call.record.items[j].k = OrganizationUrnFieldname(d_call.processor)
                \/ MatchesXByY(d_call.record.items[j].k))
    => LET fieldname == OrganizationUrnFieldname(d_call.processor)
           organization_urn == Get(d_call.record, fieldname)
           siblings == WithoutKey(d_call.record.items, fieldname)
       IN  IF \E j \in 1..Len(siblings) : siblings[j].v.t \notin {"list", "dict"}
           THEN d_out.raised = "ValueError"
           ELSE /\ d_out.raised = None
                /\ \A j \in 1..Len(siblings) :
                     LET name == siblings[j].k
                         rows == Get(d_out.value, name)
                         elements == IF siblings[j].v.t = "list" THEN siblings[j].v.items
                                     ELSE <<siblings[j].v>>
                     IN  /\ rows.t = "list"
                         /\ Len(rows.items) = Len(elements)
                         /\ \A i \in 1..Len(elements) :
                              ItemSet(rows.items[i])
                                = Inlined(elements[i], name, fieldname, organization_urn)

\* the call of process_organization_record the claim C18 is about: the record has its
\* organization field and its list-valued fields are breakdowns
ShapedRecordCall ==
    /\ d_pc = "done"
    /\ d_call.fn = "process_organization_record"
    /\ HasKey(d_call.record, OrganizationUrnFieldname(d_call.processor))
    /\ \A j \in 1..Len(d_call.record.items) :
           d_call.record.items[j].v.t = "list" => MatchesXByY(d_call.record.items[j].k)

\* C18 (amended): process_organization_record turns a list-valued 'XByY' field into the
\* same list with the organization URN added to, and the X sub-object inlined in, every
\* element; a single object into a one-element list holding the object with only the
\* organization URN added, its sub-objects left in place; and fails with ValueError on a
\* value that is neither a list nor an object.
C18_ObjectIsWrappedNotInlined ==
    ShapedRecordCall
    => LET fieldname == OrganizationUrnFieldname(d_call.processor)
           organization_urn == Get(d_call.record, fieldname)
           siblings == WithoutKey(d_call.record.items, fieldname)
       IN  IF \E j \in 1..Len(siblings) : siblings[j].v.t \notin {"list", "dict"}
           THEN d_out.raised = "ValueError"
           ELSE /\ d_out.raised = None
                /\ Keys(d_out.value) = [j \in 1..Len(siblings) |-> siblings[j].k]
                /\ \A j \in 1..Len(siblings) :
                     LET name == siblings[j].k
                         rows == Get(d_out.value, name)
                     IN  IF siblings[j].v.t = "list"
                         THEN /\ rows.t = "list"
                              /\ Len(rows.items) = Len(siblings[j].v.items)
                              /\ \A i \in 1..Len(rows.items) :
                                   ItemSet(rows.items[i])
                                     = Inlined(siblings[j].v.items[i], name, fieldname,
                                               organization_urn)
                         ELSE /\ rows.t = "list"
                              /\ Len(rows.items) = 1
                              /\ ItemSet(rows.items[1])
                                   = ItemSet(siblings[j].v)
                                       \cup {Item(fieldname, organization_urn)}

\* a record with a breakdown held as a single object, and one held as a non-empty list,
\* has been processed
C18_Witness ==
    /\ ShapedRecordCall
    /\ d_out.raised = None
    /\ \E j \in 1..Len(d_call.record.items) :
         /\ d_call.record.items[j].v.t = "dict"
         /\ MatchesXByY(d_call.record.items[j].k)
         /\ HasKey(d_call.record.items[j].v, DataKey(d_call.record.items[j].k))
    /\ \E j \in 1..Len(d_call.record.items) :
         /\ d_call.record.items[j].v.t = "list"
         /\ Len(d_call.record.items[j].v.items) > 0

\* ------------------------------------------------------------ claim C19

\* the statistic type of a statistics target, by its name
StatisticType(target) ==
    IF target \in {"page_statistics_time_bound", "page_statistics_lifetime"} THEN "page"
    ELSE IF target \in {"follower_statistics_time_bound", "follower_statistics_lifetime"}
    THEN "follower" ELSE "share"

\* the endpoint method and the processor of a statistic type
SelectionOfType(type) ==
    IF type = "page"
    THEN [method |-> "organizationPageStatistics", processor |-> "PageStatisticsProcessor"]
    ELSE IF type = "follower"
    THEN [method |-> "organizationalEntityFollowerStatistics",
          processor |-> "FollowerStatisticsProcessor"]
    ELSE [method |-> "organizationalEntityShareStatistics",
          processor |-> "ShareStatisticsProcessor"]

\* the pair run() selects for a statistics target
SelectedPair(target) ==
    [method |-> ClientMethod(target), processor |-> StatisticsProcessorClass(target)]

\* run() is past the selection of the record source
Dispatched == r_k >= 1

\* what holds of every run for the selection, whatever is said of distinct pairs: the
\* pair of a statistics run is that of its statistic type, its requests go to the
\* selected endpoint with the run's time intervals, time_intervals is None exactly for
\* the lifetime targets, and no other run has a processor
SelectionMatchesType ==
    /\ (Dispatched /\ r_cfg.target \in STATS_EXTRACTION_TARGETS)
       => /\ r_sel = SelectionOfType(StatisticType(r_cfg.target))
          /\ r_sel = SelectedPair(r_cfg.target)
          /\ r_ti.is_none <=> r_cfg.target \in LIFETIME_STATS_EXTRACTION_TARGETS
          /\ \A j \in 1..Len(r_requests) :
               r_requests[j].endpoint # "organizationAcls"
               => /\ r_requests[j].endpoint = r_sel.method
                  /\ r_requests[j].ti = r_ti
    /\ r_cfg.target \notin STATS_EXTRACTION_TARGETS
       => /\ r_sel.processor = None
          /\ \A j \in 1..Len(r_requests) : r_requests[j].endpoint \notin StatisticsEndpoints

\* C19: each of the six statistics targets selects the endpoint method and the processor
\* of its statistic type, the selected pairs are pairwise distinct over the six targets,
\* time_intervals is None exactly for the lifetime targets, and POSTS and ENUMS runs never
\* instantiate a statistics processor.
C19_SixDistinctSelections ==
    /\ SelectionMatchesType
    /\ (Dispatched /\ r_cfg.target \in STATS_EXTRACTION_TARGETS)
       => \A other \in STATS_EXTRACTION_TARGETS \ {r_cfg.target} : SelectedPair(other) # r_sel

\* C19 (amended): each of the six statistics targets selects the endpoint method and the
\* processor of its statistic type; targets of different statistic types select distinct
\* pairs, while the lifetime and the time-bound target of one type select the same pair
\* and differ in time_intervals only, which is None exactly for the lifetime targets;
\* POSTS and ENUMS runs never instantiate a statistics processor.
C19_SelectionByStatisticType ==
    /\ SelectionMatchesType
    /\ (Dispatched /\ r_cfg.target \in STATS_EXTRACTION_TARGETS)
       => \A other \in STATS_EXTRACTION_TARGETS :
            (SelectedPair(other) = r_sel) <=> (StatisticType(other) = StatisticType(r_cfg.target))

\* a lifetime follower run has requested statistics with the follower pair selected
C19_Witness ==
    /\ Dispatched
    /\ r_cfg.target = "follower_statistics_lifetime"
    /\ r_sel.processor = "FollowerStatisticsProcessor"
    /\ r_ti.is_none
    /\ \E j \in 1..Len(r_requests) :
         r_requests[j].endpoint = "organizationalEntityFollowerStatistics"

\* ------------------------------------------------------------ claim C20

\* the posts file with all its rows and its manifest written
PersistedPostsFiles == {j \in 1..Len(r_files) : r_files[j].name = "posts.csv" /\ r_files[j].complete}

\* the requests for the comments and the likes of posts
SocialActionsRequests == {j \in 1..Len(r_requests) : r_requests[j].endpoint = "socialActions"}

\* C20: in a POSTS run the post URNs used to request comments and likes are those read
\* back from the written posts CSV, the header row skipped exactly when one was written:
\* the ids read back are the ids of the rows written, in order, every comments or likes
\* request is about one of them, and none is issued before the posts table is persisted.
C20_PostUrnsReadBackAfterPersist ==
    /\ (SocialActionsRequests # {} \/ r_posts_urns # <<>>)
       => /\ r_cfg.target = "posts"
          /\ Cardinality(PersistedPostsFiles) = 1
          /\ r_tables[1].saved
          /\ \A f \in PersistedPostsFiles :
               /\ r_files[f].header = r_tables[1].header_included
               /\ r_posts_urns = r_files[f].rows
               /\ \A j \in SocialActionsRequests :
                    \E i \in 1..Len(r_files[f].rows) : r_requests[j].key = r_files[f].rows[i]
    /\ (r_cfg.target = "posts" /\ Len(r_tables) >= 2)
       => \/ /\ PersistedPostsFiles = {}
             /\ r_tables[1].is_empty = "True"
             /\ r_posts_urns = <<>>
          \/ \E f \in PersistedPostsFiles : r_posts_urns = r_files[f].rows

\* a POSTS run in debug mode wrote posts with a header row, read them back and has
\* requested the comments of one of them
C20_Witness ==
    /\ r_cfg.target = "posts"
    /\ r_cfg.debug
    /\ \E f \in PersistedPostsFiles : r_files[f].header /\ Len(r_files[f].rows) > 0
    /\ r_posts_urns # <<>>
    /\ \E j \in SocialActionsRequests : r_requests[j].n >= 0

\* ------------------------------------------- the state file over successive runs

\* The part of run() that reads and writes the state file, for a time-bound statistics
\* target, run after run: the state file of one run is what the last run wrote, and the
\* clock never goes back.  What lies between set_time_intervals and the state write (the
\* requests, the tables, the CSV files) either comes to its end or raises.

SeqDays == 0..MaxSeqDay

SeqSyncOptions ==
    {[given |-> TRUE, date_from |-> f, date_to |-> t] :
        f \in {VAL_LAST_RUN} \cup {DateString(d) : d \in SeqDays},
        t \in {Unparsable} \cup {DateString(d) : d \in SeqDays}}

NoRange == [has |-> FALSE, time_range |-> [start |-> 0, end |-> 0]]

InitSeq ==
    /\ PagIdle
    /\ p_count = 1
    /\ p_srv = [kind |-> "total", n |-> 0, script |-> <<>>]
    /\ ChunkIdle
    /\ TabIdle
    /\ RunIdle
    /\ DataIdle
    /\ s_pc = "idle"
    /\ s_sync = NoSyncOptions
    /\ s_now \in SeqDays
    /\ s_state = EmptyState
    /\ s_tmp_state = EmptyState
    /\ s_ti = NoTimeIntervals
    /\ s_hist = [runs |-> 0, only_last_run |-> TRUE, last |-> NoRange]

\* run() lines 74-95 of the next run: the state file is read into tmp_state; the
\* parameters, the access token or the organizations may make the run raise
SeqRunStart ==
    /\ UNCHANGED notSeq
    /\ s_pc = "idle"
    /\ s_hist.runs < MaxRuns
    /\ \E so \in SeqSyncOptions, now \in SeqDays, raises \in BOOLEAN :
         /\ now >= s_now
         /\ s_sync' = so
         /\ s_now' = now
         /\ s_pc' = IF raises THEN "aborted" ELSE "intervals"
         /\ s_hist' = [s_hist EXCEPT !.runs = @ + 1,
                                     !.only_last_run = @ /\ so.date_from = VAL_LAST_RUN]
    /\ s_tmp_state' = s_state
    /\ s_ti' = NoTimeIntervals
    /\ UNCHANGED s_state

\* set_time_intervals and the zero-length test of run(), lines 97-102
SeqSetTimeIntervals ==
    /\ UNCHANGED notSeq
    /\ s_pc = "intervals"
    /\ IF FromConfigDictRaises(s_sync, s_tmp_state)
       THEN /\ s_pc' = "aborted"
            /\ UNCHANGED <<s_ti, s_tmp_state>>
       ELSE LET time_range == from_config_dict(s_sync, s_tmp_state)
            IN  /\ s_ti' = TimeIntervals(STATISTICS_REPORT_GRANULARITY, time_range)
                /\ s_tmp_state' = StateWith(IsoString(Min(s_now, time_range.end)))
                /\ s_pc' = IF length_in_days(time_range) = 0 THEN "returned" ELSE "extract"
    /\ UNCHANGED <<s_sync, s_now, s_state, s_hist>>

\* run() lines 104-127: the tables are built and saved, or an exception leaves run()
SeqExtract ==
    /\ UNCHANGED notSeq
    /\ s_pc = "extract"
    /\ \E raises \in BOOLEAN : s_pc' = IF raises THEN "aborted" ELSE "write_state"
    /\ UNCHANGED <<s_sync, s_now, s_state, s_tmp_state, s_ti, s_hist>>

\* run() lines 128-129
SeqWriteState ==
    /\ UNCHANGED notSeq
    /\ s_pc = "write_state"
    /\ s_state' = IF s_tmp_state.has THEN s_tmp_state ELSE s_state
    /\ s_pc' = "finished"
    /\ UNCHANGED <<s_sync, s_now, s_tmp_state, s_ti, s_hist>>

\* the process ends; the next run finds the state file as it is
SeqRunEnd ==
    /\ UNCHANGED notSeq
    /\ s_pc \in {"finished", "returned", "aborted"}
    /\ s_pc' = "idle"
    /\ s_hist' = IF s_pc = "aborted" THEN s_hist
                 ELSE [s_hist EXCEPT !.last = [has |-> TRUE, time_range |-> s_ti.time_range]]
    /\ UNCHANGED <<s_sync, s_now, s_state, s_tmp_state, s_ti>>

NextSeq ==
    \/ SeqRunStart
    \/ SeqSetTimeIntervals
    \/ SeqExtract
    \/ SeqWriteState
    \/ SeqRunEnd

SpecSeq == InitSeq /\ [][NextSeq]_vars

\* ------------------------------------------------------------ claim C21

\* the watermark of a state file, LinkedIn's launch when it holds none
Watermark(state) == IF state.has THEN fromisoformat(state.last_run) ELSE LAST_RUN_MISSING_DEFAULT

\* the step in which a run fixes its range
RangeFixed == s_pc = "intervals" /\ s_pc' \in {"extract", "returned"}

\* C21: over successive time-bound runs that all use date_from = 'last run', the clock
\* never going back, the persisted watermark never decreases, and the range of each run
\* starts exactly at the watermark the state file holds from the run before, so that no
\* gap lies between the range of a run and the range of the run before it.
C21_WatermarkChain ==
    [][s_hist'.only_last_run
       => /\ s_state.has => (s_state'.has /\ Watermark(s_state') >= Watermark(s_state))
          /\ RangeFixed
             => /\ s_ti'.time_range.start = Watermark(s_state)
                /\ s_hist.last.has => s_ti'.time_range.start <= s_hist.last.time_range.end]_vars

\* a second run took over at the watermark the first run wrote, a day later
C21_Witness ==
    /\ s_hist.only_last_run
    /\ s_hist.runs >= 2
    /\ s_hist.last.has
    /\ s_pc = "finished"
    /\ s_ti.time_range.start > 0
    /\ s_ti.time_range.start = s_hist.last.time_range.end
    /\ Watermark(s_state) > s_ti.time_range.start

\* ------------------------------------------------------------ claim C22

\* C22: when run() is left by an exception, raised anywhere before its final state
\* write, the state file is what it was when the run started: the file changes only in a
\* step that writes it, a run that raised has written nothing, and the watermark
\* computed by set_time_intervals stays in memory.
C22_FailedRunKeepsStateFile ==
    [][/\ r_state_io'.writes = r_state_io.writes => r_state' = r_state
       /\ r_pc' = "raised" => r_state_io'.writes = 0]_vars

\* a time-bound run computed a new watermark and then had a request refused
C22_Witness ==
    /\ r_pc = "raised"
    /\ r_exc.site = "fetch"
    /\ r_tmp_state.has
    /\ r_tmp_state # r_state
    /\ r_state_io.writes = 0

\* ------------------------------------------------------------ claim C23

\* the table has no columns, or its records hold no row
NoColumnsOrNoRow ==
    t_columns.is_none \/ t_columns.names = <<>> \/ Len(t_buf) + Len(t_src) = 0

\* C23: is_empty of a table not yet saved is true exactly when the table has no columns
\* or its records hold no row, for an iterator as for a list of rows: a table with columns
\* and a row is never reported empty (and so never skipped by save_as_csv_with_manifest),
\* a table with columns and no row always is.
C23_EmptyExactlyWhenNoRow ==
    (t_pc \in {"built", "table"} /\ ~t_saved /\ t_is_empty # None)
    => (t_is_empty = "True" <=> NoColumnsOrNoRow)

\* ------------------------------------------------------------ claim C24

\* the rows Table.records has yet to deliver
RowsAhead == t_buf \o ProcessAll(t_src, t_args, t_mapping)

\* C24: on a table with lazy records, evaluating is_empty neither loses nor reorders
\* rows and pulls at most one record from the underlying stream, and none once the value
\* is cached, which then stays the same; the rows the first save writes are the rows of
\* the whole stream, in order.
C24_IsEmptyKeepsTheRows ==
    [][(t_records = "lazy" /\ t_pc \in {"built", "table"})
       => /\ (t_file' = t_file /\ t_saved' = t_saved)
             => /\ RowsAhead' = RowsAhead
                /\ t_pulled' <= t_pulled + 1
                /\ t_is_empty # None => (t_is_empty' = t_is_empty /\ t_pulled' = t_pulled)
          /\ (~t_saved /\ t_saved')
             => t_file'.rows = ProcessAll(t_input, t_args, t_mapping)]_vars

\* is_empty found a two-row stream not empty: it pulled the first row and put it back in
\* front of the second
C24_Witness ==
    /\ t_records = "lazy"
    /\ t_pc = "table"
    /\ ~t_saved
    /\ t_is_empty = "False"
    /\ t_pulled = 1
    /\ Len(t_input) = 2
    /\ t_input[1] # t_input[2]
    /\ RowsAhead = t_input

====
